---- MODULE Spec2Model ----
(***************************************************************************)
(* ITD-SDK-js: the mirror pool's round-robin dispatch (mirror-pool.js) and *)
(* the token refresh of one Session (AuthManager.refreshAccessToken with   *)
(* the token-storage writers), as state machines.                          *)
(*                                                                         *)
(*   SpecPool : the facade returned by createMirrorPool                    *)
(*   Spec     : Sessions, credential files and the asynchronous tasks      *)
(*              (refresh calls, resource requests) that run on them        *)
(***************************************************************************)
EXTENDS Integers, Sequences, FiniteSets, TLC

VARIABLES
    index,            \* mirror-pool.js:134  let index = 0
    log,              \* every value nextClient() returned, with what asked for it
    nDirect,          \* calls made on a client reference, not through the facade
    lastOp,           \* the facade operation of the last step
    accessToken,      \* client.accessToken, per client
    isAuthenticated,  \* AuthManager.isAuthenticated, per client
    cookieJar,        \* client.cookieJar, per client: cookie name -> value
    files,            \* the file system: path -> content or Absent
    tasks,            \* per caller, its asynchronous call in flight or finished
    wlog,             \* the finished calls of the token-storage writers
    build,            \* a call of createMirrorPool: its argument and its outcome
    rcall,            \* a call of a resource method: where it stands, its result
    stream,           \* a call of getNotificationStream and its read loop
    voice             \* a call of comments.addVoiceComment

poolVars == <<index, log, nDirect, lastOp>>
sessionVars == <<accessToken, isAuthenticated, cookieJar, files, tasks>>
extVars == <<wlog, build, rcall, stream, voice>>
vars == <<index, log, nDirect, lastOp,
          accessToken, isAuthenticated, cookieJar, files, tasks,
          wlog, build, rcall, stream, voice>>

(***************************************************************************)
(* Bounds of the model.                                                    *)
(***************************************************************************)
MaxSel == 7
MaxDirect == 5

(***************************************************************************)
(* The mirror pool.                                                        *)
(***************************************************************************)
\* createMirrorPool([A, B, C]): the clients in the order of the configs.
clients == <<"A", "B", "C">>

NoClient == "none"

\* nextClient(): the client it returns (the counter is advanced by the caller
\* of this operator in the same step, as the function does).
NextClientOfMut_AdvanceFirst(i) == clients[((i + 1) % Len(clients)) + 1]

NextClientOfMut_NoWrap(i) == clients[IF i < Len(clients) THEN i + 1 ELSE Len(clients)]

\* nextClient(), line 136: clients[index % clients.length]
NextClientOf(i) == clients[(i % Len(clients)) + 1]

\* What the last getClient() returned, and what the last read of a manager
\* method was bound to.
RECURSIVE LastOf(_, _)
LastOf(l, kind) ==
    IF l = <<>> THEN NoClient
    ELSE IF l[Len(l)].kind = kind THEN l[Len(l)].client
    ELSE LastOf(SubSeq(l, 1, Len(l) - 1), kind)

pinned == LastOf(log, "pin")
heldFn == LastOf(log, "read")

\* One execution of nextClient() on behalf of an operation of the given kind.
Select(kind, op) ==
    /\ Len(log) < MaxSel
    /\ log' = Append(log, [kind |-> kind, client |-> NextClientOf(index)])
    /\ index' = index + 1
    /\ lastOp' = op
    /\ UNCHANGED nDirect

TopCallMut_TakesTwo ==
    /\ Len(log) < MaxSel
    /\ log' = Append(log, [kind |-> "call", client |-> NextClientOf(index + 1)])
    /\ index' = index + 2
    /\ lastOp' = "topCall"
    /\ UNCHANGED nDirect
    /\ UNCHANGED <<sessionVars, extVars>>

\* pool.method(...): the get trap returns a wrapper, the wrapper takes the
\* next client when it is invoked.
TopCall == Select("call", "topCall") /\ UNCHANGED <<sessionVars, extVars>>

\* pool.manager.method(...): makeManagerProxy's get trap takes the next
\* client when the method is read; the call follows at once.
ManagerCall == Select("call", "managerCall") /\ UNCHANGED <<sessionVars, extVars>>

GetClientMut_Peeks ==
    /\ Len(log) < MaxSel
    /\ log' = Append(log, [kind |-> "pin", client |-> NextClientOf(index)])
    /\ lastOp' = "getClient"
    /\ UNCHANGED <<index, nDirect>>
    /\ UNCHANGED <<sessionVars, extVars>>

\* pool.getClient() / pool.nextClient()
GetClient == Select("pin", "getClient") /\ UNCHANGED <<sessionVars, extVars>>

\* pool.<property that is no function and no manager>: nextClient()[prop]
PropRead == Select("prop", "propRead") /\ UNCHANGED <<sessionVars, extVars>>

\* const f = pool.manager.method, not invoked yet
MethodRead == Select("read", "methodRead") /\ UNCHANGED <<sessionVars, extVars>>

\* pool.manager, pool.size, pool.clients: no client is taken
PlainRead ==
    /\ lastOp' = "plainRead"
    /\ lastOp # "plainRead"
    /\ UNCHANGED <<index, log, nDirect>>
    /\ UNCHANGED <<sessionVars, extVars>>

Direct(op) ==
    /\ nDirect < MaxDirect
    /\ nDirect' = nDirect + 1
    /\ lastOp' = op
    /\ UNCHANGED <<index, log>>

PinnedCallMut_ThroughPool ==
    /\ pinned # NoClient
    /\ nDirect < MaxDirect
    /\ nDirect' = nDirect + 1
    /\ lastOp' = "pinnedCall"
    /\ index' = index + 1
    /\ UNCHANGED log
    /\ UNCHANGED <<sessionVars, extVars>>

\* client.method(...) on the reference getClient() returned
PinnedCall ==
    /\ pinned # NoClient
    /\ Direct("pinnedCall")
    /\ UNCHANGED <<sessionVars, extVars>>

HeldCallMut_TakesNext ==
    /\ heldFn # NoClient
    /\ nDirect < MaxDirect
    /\ nDirect' = nDirect + 1
    /\ lastOp' = "heldCall"
    /\ index' = index + 1
    /\ UNCHANGED log
    /\ UNCHANGED <<sessionVars, extVars>>

\* f(...) for a function read from a manager proxy earlier: bound to the
\* manager of the client taken at the read
HeldCall ==
    /\ heldFn # NoClient
    /\ Direct("heldCall")
    /\ UNCHANGED <<sessionVars, extVars>>

(***************************************************************************)
(* Sessions, credential files and the refresh.                             *)
(***************************************************************************)
\* The clients whose Sessions the tasks run on (two entries of one pool, in
\* one process).
SessionClients == {"A", "B"}

NoToken == "null"
\* the empty string as a token: falsy like null
EmptyToken == ""
SeedToken == "t0"
\* The tokens the refresh endpoint may answer with.
Tokens == {"t1", "t2"}

\* A file is [exists, lines]; a file that does not exist has no lines.
Absent == [exists |-> FALSE, lines |-> <<>>]
File(lines) == [exists |-> TRUE, lines |-> lines]
TokenKey == "ITD_ACCESS_TOKEN"

\* token-storage: path.join(__dirname, '..', '.env'), whatever client asks
TokenPathOf(c) == ".env"
\* token-storage: path.join(__dirname, '..', '.cookies'), whatever client asks
CookiesPathOf(c) == ".cookies"
Paths == {".env", ".cookies"}

\* A text file is the sequence of its lines (the text split at "\n"); a
\* line KEY=value is a record, the empty line has the empty key.
Line(k, v) == [key |-> k, val |-> v]
EmptyLine == Line("", "")

\* /^ITD_ACCESS_TOKEN=.*$/m : the lines the regular expression matches
IsTokenLine(l) == l.key = TokenKey

HasTokenLine(content) == \E k \in 1..Len(content) : IsTokenLine(content[k])

FirstTokenLine(content) ==
    CHOOSE k \in 1..Len(content) :
        /\ IsTokenLine(content[k])
        /\ \A j \in 1..(k - 1) : ~IsTokenLine(content[j])

WriteTokenMut_NoAppend(content, newToken) ==
    IF HasTokenLine(content)
    THEN [content EXCEPT ![FirstTokenLine(content)] = Line(TokenKey, newToken)]
    ELSE content

WriteTokenMut_AlwaysAppends(content, newToken) ==
    content \o <<Line(TokenKey, newToken), EmptyLine>>

\* saveAccessToken, lines 131-139: replace the first matching line, or
\* append "\nITD_ACCESS_TOKEN=<token>\n" (a token is a JWT: it holds no "$",
\* so String.replace inserts it as it is)
WriteToken(content, newToken) ==
    IF HasTokenLine(content)
    THEN [content EXCEPT ![FirstTokenLine(content)] = Line(TokenKey, newToken)]
    ELSE content \o <<Line(TokenKey, newToken), EmptyLine>>

\* saveAccessToken(newToken): the boolean it returns; fsOk is whether
\* readFileSync and writeFileSync go through
SaveAccessTokenResult(fs, c, fsOk) == fs[TokenPathOf(c)].exists /\ fsOk

\* saveAccessToken(newToken): whether it rejects; the try of lines 120-147
\* holds the whole body and the catch returns false
SaveAccessTokenThrows(fs, c, fsOk) == FALSE

SaveAccessTokenMut_CreatesFile(fs, c, newToken, fsOk) ==
    IF fsOk
    THEN [fs EXCEPT ![TokenPathOf(c)] = File(WriteToken(@.lines, newToken))]
    ELSE fs

SaveAccessTokenMut_KeepsFirst(fs, c, newToken, fsOk) ==
    IF SaveAccessTokenResult(fs, c, fsOk) /\ ~HasTokenLine(fs[TokenPathOf(c)].lines)
    THEN [fs EXCEPT ![TokenPathOf(c)] = File(WriteToken(@.lines, newToken))]
    ELSE fs

\* saveAccessToken(newToken): the file system it leaves
SaveAccessToken(fs, c, newToken, fsOk) ==
    IF SaveAccessTokenResult(fs, c, fsOk)
    THEN [fs EXCEPT ![TokenPathOf(c)] = File(WriteToken(@.lines, newToken))]
    ELSE fs

SaveCookieHeaderMut_Appends(fs, c, header, fsOk) ==
    IF fsOk THEN [fs EXCEPT ![CookiesPathOf(c)] = File(@.lines \o header)] ELSE fs

\* saveCookieHeader(newCookieHeader): writeFileSync creates or replaces
SaveCookieHeader(fs, c, header, fsOk) ==
    IF fsOk THEN [fs EXCEPT ![CookiesPathOf(c)] = File(header)] ELSE fs

\* saveCookieHeader(newCookieHeader): the boolean it returns
SaveCookieHeaderResult(fs, c, fsOk) == fsOk

\* Cookies: a jar is the sequence of its cookies in creation order.
Cookie(k, v) == [key |-> k, value |-> v]
BadCookie == [key |-> "", value |-> ""]
DdgNames == {"__ddg1_"}
StartsWithDdg(name) == name \in DdgNames

\* cookieJar.setCookieSync(cookieString, baseUrl): a string that does not
\* parse throws (the caller ignores it); a cookie of a name the jar holds
\* replaces it, any other is added
SetCookieSync(jar, ck) ==
    IF ck = BadCookie THEN jar
    ELSE IF \E k \in 1..Len(jar) : jar[k].key = ck.key
    THEN [k \in 1..Len(jar) |-> IF jar[k].key = ck.key THEN ck ELSE jar[k]]
    ELSE Append(jar, ck)

RECURSIVE MergeCookiesMut_StopsAtBad(_, _)
MergeCookiesMut_StopsAtBad(jar, cookies) ==
    IF cookies = <<>> \/ Head(cookies) = BadCookie THEN jar
    ELSE MergeCookiesMut_StopsAtBad(SetCookieSync(jar, Head(cookies)), Tail(cookies))

\* for (const cookieString of cookies) { try { setCookieSync } catch {} }
RECURSIVE MergeCookies(_, _)
MergeCookies(jar, cookies) ==
    IF cookies = <<>> THEN jar
    ELSE MergeCookies(SetCookieSync(jar, Head(cookies)), Tail(cookies))

IsImportantMut_KeepsAll(ck) == ck.key # ""

\* c.key === 'refresh_token' || c.key.startsWith('__ddg') || c.key === 'is_auth'
IsImportant(ck) ==
    \/ ck.key = "refresh_token"
    \/ StartsWithDdg(ck.key)
    \/ ck.key = "is_auth"

\* allCookies.filter(...): the cookie header is the list of the name=value
\* pairs kept, joined by "; "
RECURSIVE ImportantCookies(_)
ImportantCookies(all) ==
    IF all = <<>> THEN <<>>
    ELSE IF IsImportant(Head(all))
    THEN <<Head(all)>> \o ImportantCookies(Tail(all))
    ELSE ImportantCookies(Tail(all))

\* response.headers['set-cookie'] of a refresh answer
NoHeader == [present |-> FALSE, cookies |-> <<>>]
Header(cookies) == [present |-> TRUE, cookies |-> cookies]
SetCookieHeaders ==
    { NoHeader,
      Header(<<BadCookie>>),
      Header(<<BadCookie, Cookie("refresh_token", "r1"), Cookie("sid", "s1")>>) }

FailOutcomes == {"non200", "noToken", "netErr"}

\* The callers: each runs one asynchronous call at a time and may start the
\* next when it has the result; the calls of different callers interleave
\* at their awaits.
Callers == {"p", "q"}

\* The clients a caller's calls may run on.
ClientsOf(p) == IF p = "p" THEN {"A"} ELSE SessionClients

\* A task is one asynchronous call of a caller: auth.refreshAccessToken()
\* or a resource request (users.getMyProfile()) on one client.
NewTask(kind, c) ==
    [ kind |-> kind, client |-> c,
      pc |-> "start",          \* where the resource request stands
      sends |-> <<>>,          \* the token each HTTP request of it was stamped with
      got401 |-> FALSE, nRefresh |-> 0, result |-> "pending",
      rpc |-> "idle",          \* where its refreshAccessToken() stands
      newToken |-> NoToken, setCookie |-> NoHeader, allCookies |-> <<>>,
      saved |-> FALSE,         \* what saveAccessToken returned
      rres |-> "pending",      \* what refreshAccessToken() resolved to
      threw |-> FALSE ]        \* whether it rejected instead

Idle == NewTask("none", "A")

\* The caller has no call in flight.
Free(p) ==
    \/ tasks[p].kind = "none"
    \/ tasks[p].kind = "refresh" /\ tasks[p].rpc = "returned"
    \/ tasks[p].kind = "request" /\ tasks[p].pc = "done"
    \/ tasks[p].kind \in {"logout", "setAccessToken"} /\ tasks[p].pc = "done"

\* refreshAccessToken(), lines 27-35: build the request and POST it
RefreshInvoke(t) ==
    [t EXCEPT !.rpc = "awaitPost", !.nRefresh = @ + 1, !.rres = "pending"]

\* refreshAccessToken() returns v: its locals are gone
Returned(t, v) ==
    [t EXCEPT !.rpc = "returned", !.rres = v, !.newToken = NoToken,
              !.setCookie = NoHeader, !.allCookies = <<>>, !.saved = FALSE]

\* auth.refreshAccessToken() called by the user
StartRefresh(p, c) ==
    /\ Free(p)
    /\ tasks' = [tasks EXCEPT ![p] = RefreshInvoke(NewTask("refresh", c))]
    /\ UNCHANGED <<accessToken, isAuthenticated, cookieJar, files>>
    /\ UNCHANGED <<poolVars, extVars>>

RefreshFailMut_ClearsSession(p, outcome) ==
    /\ tasks' = [tasks EXCEPT ![p] = Returned(@, NoToken)]
    /\ accessToken' = [accessToken EXCEPT ![tasks[p].client] = NoToken]
    /\ isAuthenticated' = [isAuthenticated EXCEPT ![tasks[p].client] = FALSE]
    /\ UNCHANGED <<cookieJar, files>>

RefreshFailMut_Rethrows(p, outcome) ==
    /\ tasks' = [tasks EXCEPT ![p] =
                    IF outcome = "noToken" THEN Returned(@, NoToken)
                    ELSE [Returned(@, "pending") EXCEPT !.threw = TRUE]]
    /\ UNCHANGED <<accessToken, isAuthenticated, cookieJar, files>>

\* refreshAccessToken(), lines 80-88: a 200 without accessToken returns null;
\* a status axios rejects and a network error reach the catch, which logs
\* and returns null
RefreshFail(p, outcome) ==
    /\ tasks' = [tasks EXCEPT ![p] = Returned(@, NoToken)]
    /\ UNCHANGED <<accessToken, isAuthenticated, cookieJar, files>>

\* refreshAccessToken(), lines 37-45: up to the await of saveAccessToken
RefreshSuccess(p, tok, sc, fsOk) ==
    LET c == tasks[p].client IN
    /\ accessToken' = [accessToken EXCEPT ![c] = tok]
    /\ isAuthenticated' = [isAuthenticated EXCEPT ![c] = TRUE]
    /\ files' = SaveAccessToken(files, c, tok, fsOk)
    /\ tasks' = [tasks EXCEPT ![p].rpc = "afterSave",
                              ![p].newToken = tok, ![p].setCookie = sc,
                              ![p].saved = SaveAccessTokenResult(files, c, fsOk)]
    /\ UNCHANGED cookieJar

\* the answer of the refresh endpoint arrives
RefreshResponse(p) ==
    /\ tasks[p].rpc = "awaitPost"
    /\ \/ \E outcome \in FailOutcomes : RefreshFail(p, outcome)
       \/ \E tok \in Tokens, sc \in SetCookieHeaders, fsOk \in BOOLEAN :
              RefreshSuccess(p, tok, sc, fsOk)
    /\ UNCHANGED <<poolVars, extVars>>

\* refreshAccessToken(), lines 48-61 and 77: after saveAccessToken; with
\* cookies in the answer, merge them and read the jar (jarOk: getCookiesSync
\* does not throw)
RefreshAfterSave(p) ==
    LET c == tasks[p].client
        t == tasks[p] IN
    /\ t.rpc = "afterSave"
    /\ \/ /\ ~t.setCookie.present
          /\ tasks' = [tasks EXCEPT ![p] = Returned(@, t.newToken)]
          /\ UNCHANGED cookieJar
       \/ /\ t.setCookie.present
          /\ cookieJar' = [cookieJar EXCEPT ![c] = MergeCookies(@, t.setCookie.cookies)]
          /\ \E jarOk \in BOOLEAN :
                tasks' = IF jarOk
                         THEN [tasks EXCEPT ![p].rpc = "afterGet",
                                            ![p].setCookie = NoHeader,
                                            ![p].allCookies = cookieJar'[c]]
                         ELSE [tasks EXCEPT ![p] = Returned(@, t.newToken)]
    /\ UNCHANGED <<accessToken, isAuthenticated, files>>
    /\ UNCHANGED <<poolVars, extVars>>

\* refreshAccessToken(), lines 63-71 and 77: filter, write the cookie file
RefreshAfterGet(p) ==
    LET c == tasks[p].client
        t == tasks[p]
        importantCookies == ImportantCookies(t.allCookies) IN
    /\ t.rpc = "afterGet"
    /\ IF Len(importantCookies) > 0
       THEN /\ \E fsOk \in BOOLEAN :
                  files' = SaveCookieHeader(files, c, importantCookies, fsOk)
            /\ tasks' = [tasks EXCEPT ![p].rpc = "afterCookieSave",
                                      ![p].allCookies = <<>>]
       ELSE /\ tasks' = [tasks EXCEPT ![p] = Returned(@, t.newToken)]
            /\ UNCHANGED files
    /\ UNCHANGED <<accessToken, isAuthenticated, cookieJar>>
    /\ UNCHANGED <<poolVars, extVars>>

\* refreshAccessToken(), line 77: return newToken
RefreshReturn(p) ==
    /\ tasks[p].rpc = "afterCookieSave"
    /\ tasks' = [tasks EXCEPT ![p] = Returned(@, tasks[p].newToken)]
    /\ UNCHANGED <<accessToken, isAuthenticated, cookieJar, files>>
    /\ UNCHANGED <<poolVars, extVars>>

CheckAuthMut_AlwaysTrue(c) == TRUE

CheckAuthMut_TokenOnly(c) == accessToken[c] \notin {NoToken, EmptyToken}

\* AuthManager.checkAuth(): !!(this.client.accessToken || this.isAuthenticated)
CheckAuth(c) == accessToken[c] \notin {NoToken, EmptyToken} \/ isAuthenticated[c]

\* users.getMyProfile(), lines 61-68: the precondition, then the GET, which
\* carries the client's current token
StartRequest(p, c) ==
    /\ Free(p)
    /\ tasks' = [tasks EXCEPT ![p] =
          IF CheckAuth(c)
          THEN [NewTask("request", c) EXCEPT !.pc = "sent", !.sends = <<accessToken[c]>>]
          ELSE [NewTask("request", c) EXCEPT !.pc = "done", !.result = "authRequired"]]
    /\ UNCHANGED <<accessToken, isAuthenticated, cookieJar, files>>
    /\ UNCHANGED <<poolVars, extVars>>

GetMyProfileReturnMut_Resends(p, status) ==
    tasks' = IF status = 200
             THEN [tasks EXCEPT ![p].pc = "done", ![p].result = "data"]
             ELSE [tasks EXCEPT ![p].sends = Append(@, accessToken[tasks[p].client]),
                                ![p].pc = "retrySent"]

\* users.getMyProfile(), lines 70-86: 200 returns the data, any other
\* status and any exception return null
GetMyProfileReturn(p, status) ==
    tasks' = [tasks EXCEPT ![p].pc = "done",
                           ![p].result = IF status = 200 THEN "data" ELSE "null"]

\* The request executor on a 401: start the refresh, once
ExecOn401(p) ==
    tasks' = [tasks EXCEPT ![p] = RefreshInvoke([@ EXCEPT !.pc = "refreshing",
                                                         !.got401 = TRUE])]

\* HTTP statuses of an answer; 0 stands for no answer (a network error)
Statuses == {200, 401, 500, 0}

\* the answer to the first GET arrives
RequestResponse(p) ==
    /\ tasks[p].pc = "sent"
    /\ \E status \in Statuses :
          IF status = 401 THEN ExecOn401(p) ELSE GetMyProfileReturn(p, status)
    /\ UNCHANGED <<accessToken, isAuthenticated, cookieJar, files>>
    /\ UNCHANGED <<poolVars, extVars>>

\* The request executor when the refresh has returned: with a token, send
\* the request again, stamped with it; without, give the 401 to the method
ExecAfterRefresh(p) ==
    /\ tasks[p].pc = "refreshing"
    /\ tasks[p].rpc = "returned"
    /\ IF tasks[p].rres \in Tokens
       THEN tasks' = [tasks EXCEPT ![p].pc = "retrySent",
                                   ![p].sends = Append(@, tasks[p].rres)]
       ELSE tasks' = [tasks EXCEPT ![p].pc = "done", ![p].result = "null"]
    /\ UNCHANGED <<accessToken, isAuthenticated, cookieJar, files>>
    /\ UNCHANGED <<poolVars, extVars>>

\* the answer to the repeated GET arrives: the executor passes it on
RetryResponse(p) ==
    /\ tasks[p].pc = "retrySent"
    /\ \E status \in Statuses : GetMyProfileReturn(p, status)
    /\ UNCHANGED <<accessToken, isAuthenticated, cookieJar, files>>
    /\ UNCHANGED <<poolVars, extVars>>

(***************************************************************************)
(* The token-storage writers, called on their own.                         *)
(***************************************************************************)
MaxWrites == 3

\* The token files a user may have provided: none, an empty one, without
\* the key, with the key (alone, first, among other keys, with an empty
\* value), with keys that only resemble it; with and without a final "\n".
StoreEnvFiles ==
    { Absent,
      File(<<EmptyLine>>),
      File(<<Line("OTHER", "x"), EmptyLine>>),
      File(<<Line("OTHER", "x"), Line("ITD_ACCESS_TOKEN_OLD", "z")>>),
      File(<<Line(TokenKey, SeedToken), EmptyLine>>),
      File(<<Line(TokenKey, ""), Line("OTHER", "x")>>),
      File(<<Line("OTHER", "x"), Line(TokenKey, SeedToken), Line("MORE", "y"), EmptyLine>>),
      File(<<Line("OTHER", "x"), Line("MORE", "y"), EmptyLine>>) }

\* The cookie headers handed to saveCookieHeader: a string "k=v; k2=v2" is
\* the list of its pairs.
CookieHeaders ==
    { <<Cookie("refresh_token", "r1")>>,
      <<Cookie("refresh_token", "r2"), Cookie("is_auth", "1")>> }

\* await saveAccessToken(tok), finished
SaveAccessTokenCall(tok, fsOk) ==
    /\ Len(wlog) < MaxWrites
    /\ files' = SaveAccessToken(files, "A", tok, fsOk)
    /\ wlog' = Append(wlog,
          [ op |-> "token", tok |-> tok, header |-> <<>>,
            ok |-> SaveAccessTokenResult(files, "A", fsOk),
            threw |-> SaveAccessTokenThrows(files, "A", fsOk),
            before |-> files[TokenPathOf("A")],
            after |-> files'[TokenPathOf("A")] ])
    /\ UNCHANGED <<accessToken, isAuthenticated, cookieJar, tasks>>
    /\ UNCHANGED <<poolVars, build, rcall, stream, voice>>

\* await saveCookieHeader(header), finished
SaveCookieHeaderCall(header, fsOk) ==
    /\ Len(wlog) < MaxWrites
    /\ files' = SaveCookieHeader(files, "A", header, fsOk)
    /\ wlog' = Append(wlog,
          [ op |-> "cookie", tok |-> NoToken, header |-> header,
            ok |-> SaveCookieHeaderResult(files, "A", fsOk),
            threw |-> FALSE,
            before |-> files[CookiesPathOf("A")],
            after |-> files'[CookiesPathOf("A")] ])
    /\ UNCHANGED <<accessToken, isAuthenticated, cookieJar, tasks>>
    /\ UNCHANGED <<poolVars, build, rcall, stream, voice>>

NextStore ==
    \/ \E tok \in Tokens, fsOk \in BOOLEAN : SaveAccessTokenCall(tok, fsOk)
    \/ \E header \in CookieHeaders, fsOk \in BOOLEAN : SaveCookieHeaderCall(header, fsOk)

(***************************************************************************)
(* The construction of a pool.                                             *)
(***************************************************************************)
MaxEntries == 2
MaxConfigs == 3

\* opts.projectRoot
ProjectRoot == "/proj"

\* The account keys of a mirrors file, in the order Object.keys gives them;
\* the k-th config of an array stands for the k-th of them too.
AccountKeys == <<"gork", "gork_1", "gork_2", "gork_3">>

\* null as the value of a named cookie in the JSON
NullValue == "null"

\* A value of the mirrors file: a string (the list of its name=value
\* pairs, pad: with blanks around it), an object of named cookie values,
\* or something else (a number, null).
StringVals ==
    { [type |-> "string", pad |-> p, pairs |-> s] :
        p \in BOOLEAN,
        s \in { <<>>,
                <<Cookie("refresh_token", "r")>>,
                <<Cookie("refresh_token", "r"), Cookie("is_auth", "1")>> } }

ObjectVals ==
    { [type |-> "object", pad |-> FALSE, pairs |-> s] :
        s \in { <<>>,
                <<Cookie("refresh_token", "r")>>,
                <<Cookie("refresh_token", "")>>,
                <<Cookie("refresh_token", NullValue)>>,
                <<Cookie("refresh_token", "r"), Cookie("is_auth", "")>>,
                <<Cookie("refresh_token", ""), Cookie("is_auth", "1")>> } }

OtherVals == { [type |-> "other", pad |-> FALSE, pairs |-> <<>>] }

MirrorVals == StringVals \cup ObjectVals \cup OtherVals

IsSet(p) == p.value # NullValue /\ p.value # ""

\* toCookieString(val): the cookie string, as the list of its pairs
toCookieString(val) ==
    IF val.type = "string" THEN val.pairs
    ELSE IF val.type = "object" THEN SelectSeq(val.pairs, IsSet)
    ELSE <<>>

\* The mirrors file: missing, no JSON, JSON that is no object (null, an
\* array, a number), or an object of entries.
NoFile == [state |-> "missing", entries |-> <<>>]

MirrorFiles ==
    { [state |-> st, entries |-> <<>>] : st \in {"missing", "badJson", "nonObject"} }
    \cup { [state |-> "object", entries |-> e] :
             e \in UNION { [1..n -> MirrorVals] : n \in 0..MaxEntries } }

\* The argument of createMirrorPool: an array of n configs or clients, an
\* options object (with mirrorsCookiesPath or not; the file it names), or
\* anything else.
BuildArgs ==
    { [kind |-> "other", n |-> 0, hasPath |-> FALSE, file |-> NoFile] }
    \cup { [kind |-> "array", n |-> n, hasPath |-> FALSE, file |-> NoFile] :
             n \in 0..MaxConfigs }
    \cup { [kind |-> "options", n |-> 0, hasPath |-> FALSE, file |-> NoFile] }
    \cup { [kind |-> "options", n |-> 0, hasPath |-> TRUE, file |-> f] :
             f \in MirrorFiles }

\* path.join(projectRoot, `<base>.mirrors.<key>`)
MirrorPath(root, base, key) == [root |-> root, base |-> base, key |-> key]

\* One element of configs: the options of an ITDClient.
Config(key, cookiesString, cookiesPath, envPath) ==
    [ key |-> key, cookiesString |-> cookiesString,
      cookiesPath |-> cookiesPath, envPath |-> envPath ]

\* createMirrorPool([...]): the k-th config of the array, as in the example
\* { cookiesPath: '.cookies_gork', envPath: '.env_gork' }
ExplicitConfig(k) ==
    Config(AccountKeys[k], <<>>,
           MirrorPath("", ".cookies_", AccountKeys[k]),
           MirrorPath("", ".env_", AccountKeys[k]))

\* The names declared where the callback of keys.map runs (lines 43-63),
\* and the names the object literal of lines 67-73 reads.
DeclaredNames ==
    { "filePath", "projectRoot", "baseOptions", "fullPath", "raw", "data",
      "keys", "key", "cookieString" }

ConfigLiteralReads == { "baseOptions", "projectRoot", "cookiesString", "key" }

\* Reading a name that is declared nowhere throws a ReferenceError.
ConfigLiteralThrows == ~(ConfigLiteralReads \subseteq DeclaredNames)

Thrown(err) == [threw |-> err, configs |-> <<>>]

\* keys.map(...), lines 62-74, from the k-th entry on; done holds the
\* configs made so far
RECURSIVE MapEntries(_, _, _, _)
MapEntries(entries, k, root, done) ==
    IF k > Len(entries) THEN [threw |-> "none", configs |-> done]
    ELSE LET cookieString == toCookieString(entries[k]) IN
         IF cookieString = <<>> THEN Thrown("Error")
         ELSE IF ConfigLiteralThrows THEN Thrown("ReferenceError")
         ELSE MapEntries(entries, k + 1, root,
                         Append(done,
                                Config(AccountKeys[k], cookieString,
                                       MirrorPath(root, ".cookies", AccountKeys[k]),
                                       MirrorPath(root, ".env", AccountKeys[k]))))

\* loadMirrorsFromFile(filePath, projectRoot, baseOptions)
loadMirrorsFromFile(file, root) ==
    IF file.state # "object" THEN Thrown("Error")
    ELSE IF Len(file.entries) = 0 THEN Thrown("Error")
    ELSE MapEntries(file.entries, 1, root, <<>>)

\* What a call of createMirrorPool left: the error it threw or the pool
\* (its size is clients.length, one client per config).
Outcome(arg, r) ==
    [ made |-> TRUE, arg |-> arg, threw |-> r.threw,
      size |-> Len(r.configs), configs |-> r.configs ]

NoBuild ==
    [ made |-> FALSE, arg |-> [kind |-> "other", n |-> 0, hasPath |-> FALSE, file |-> NoFile],
      threw |-> "none", size |-> 0, configs |-> <<>> ]

createMirrorPoolMut_AllowsEmpty(arg) ==
    IF arg.kind = "array"
    THEN Outcome(arg, [threw |-> "none", configs |-> [k \in 1..arg.n |-> ExplicitConfig(k)]])
    ELSE IF arg.kind = "options"
    THEN IF ~arg.hasPath THEN Outcome(arg, Thrown("TypeError"))
         ELSE Outcome(arg, loadMirrorsFromFile(arg.file, ProjectRoot))
    ELSE Outcome(arg, Thrown("TypeError"))

\* createMirrorPool(configsOrOptions), lines 111-132 and 170-171
createMirrorPool(arg) ==
    IF arg.kind = "array"
    THEN IF arg.n = 0 THEN Outcome(arg, Thrown("TypeError"))
         ELSE Outcome(arg, [threw |-> "none",
                            configs |-> [k \in 1..arg.n |-> ExplicitConfig(k)]])
    ELSE IF arg.kind = "options"
    THEN IF ~arg.hasPath THEN Outcome(arg, Thrown("TypeError"))
         ELSE Outcome(arg, loadMirrorsFromFile(arg.file, ProjectRoot))
    ELSE Outcome(arg, Thrown("TypeError"))

\* const pool = createMirrorPool(arg)
CreateMirrorPoolCall(arg) ==
    /\ ~build.made
    /\ build' = createMirrorPool(arg)
    /\ UNCHANGED <<poolVars, sessionVars, wlog, rcall, stream, voice>>

NextBuild == \E arg \in BuildArgs : CreateMirrorPoolCall(arg)

(***************************************************************************)
(* The resource methods, called on one client, over the plain HTTP client  *)
(* (what an answer of 401 sets off is the matter of SpecExec).             *)
(***************************************************************************)
\* client.requireAuth(): the precondition of the request executor
RequireAuth(c) == accessToken[c] \notin {NoToken, EmptyToken} \/ isAuthenticated[c]

\* The methods modelled, each from its code.
Methods ==
    { "getMyProfile", "deleteFile", "getNotifications", "addComment",
      "getUserProfile", "getFollowers", "search", "getComments",
      "searchUsers", "searchHashtags" }

\* How a method starts: with auth.checkAuth(), with client.requireAuth(),
\* or with neither.
AuthCheck(m) ==
    IF m \in {"getMyProfile", "deleteFile"} THEN "checkAuth"
    ELSE IF m \in {"getNotifications", "addComment"} THEN "requireAuth"
    ELSE "none"

Precondition(m, c) ==
    IF AuthCheck(m) = "checkAuth" THEN CheckAuth(c)
    ELSE IF AuthCheck(m) = "requireAuth" THEN RequireAuth(c)
    ELSE TRUE

\* The methods the managers under src/ define (UsersManager, HashtagsManager).
ManagerMethods(manager) ==
    IF manager = "users"
    THEN { "updateProfile", "getMyProfile", "getUserProfile", "followUser",
           "unfollowUser", "getFollowers", "getFollowing", "getUserClan",
           "getTopClans", "getWhoToFollow", "isFollowing",
           "getMyFollowersCount", "getMyFollowingCount", "getMyClan" }
    ELSE IF manager = "hashtags"
    THEN { "getTrending", "getPostsByHashtag" }
    ELSE {}

\* SearchManager.searchUsers and searchHashtags only call another manager:
\* this.client.users.searchUsers(...), this.client.hashtags.search(...)
Delegating == { "searchUsers", "searchHashtags" }

Collaborator(m) ==
    IF m = "searchUsers" THEN [manager |-> "users", method |-> "searchUsers"]
    ELSE [manager |-> "hashtags", method |-> "search"]

\* Calling what is no function throws a TypeError, outside any try.
CallThrows(m) ==
    /\ m \in Delegating
    /\ Collaborator(m).method \notin ManagerMethods(Collaborator(m).manager)

\* JSON bodies. A payload is the fields an answer may carry, each absent
\* ("undef") or given ("v"); a body carries a payload under data or at the
\* top level.
Fields == {"undef", "v"}

Payloads ==
    [ users : Fields, pagination : Fields, hashtags : Fields,
      notifications : Fields, hasMore : Fields, comments : Fields ]

EmptyPayload ==
    [ users |-> "undef", pagination |-> "undef", hashtags |-> "undef",
      notifications |-> "undef", hasMore |-> "undef", comments |-> "undef" ]

NestedBody(P) == [hasData |-> TRUE, data |-> P, top |-> EmptyPayload]
FlatBody(P) == [hasData |-> FALSE, data |-> EmptyPayload, top |-> P]
NoBody == FlatBody(EmptyPayload)
Bodies == { NestedBody(P) : P \in Payloads } \cup { FlatBody(P) : P \in Payloads }

\* x || d
Or(x, d) == IF x # "undef" THEN x ELSE d

\* What a method returns: null, false, true, an object it built (val), or
\* the body as it came (wrapped: still under data).
Result(kind, val, wrapped) == [kind |-> kind, val |-> val, wrapped |-> wrapped]
Pending == Result("pending", EmptyPayload, FALSE)
Null == Result("null", EmptyPayload, FALSE)
False == Result("false", EmptyPayload, FALSE)
True == Result("true", EmptyPayload, FALSE)
Value(val) == Result("value", val, FALSE)

\* users.getMyProfile, line 71, and comments.addComment, line 41:
\* return response.data
ReturnData(body) ==
    Result("raw", IF body.hasData THEN body.data ELSE body.top, body.hasData)

\* users.getUserProfile, line 104: response.data.data || response.data
getUserProfile200(body) ==
    Result("raw", IF body.hasData THEN body.data ELSE body.top, FALSE)

\* users.getFollowers, lines 209-222
getFollowers200(body) ==
    IF body.hasData /\ body.data.users # "undef"
    THEN Value([EmptyPayload EXCEPT !.users = body.data.users,
                                    !.pagination = Or(body.data.pagination, "empty")])
    ELSE IF body.top.users # "undef"
    THEN Value([EmptyPayload EXCEPT !.users = body.top.users,
                                    !.pagination = Or(body.top.pagination, "empty")])
    ELSE Value([EmptyPayload EXCEPT !.users = "empty", !.pagination = "empty"])

\* searchManager.search, lines 30-48
search200(body) ==
    IF body.hasData
    THEN Value([EmptyPayload EXCEPT !.users = Or(body.data.users, "empty"),
                                    !.hashtags = Or(body.data.hashtags, "empty")])
    ELSE IF body.top.users # "undef" \/ body.top.hashtags # "undef"
    THEN Value([EmptyPayload EXCEPT !.users = Or(body.top.users, "empty"),
                                    !.hashtags = Or(body.top.hashtags, "empty")])
    ELSE Value([EmptyPayload EXCEPT !.users = "empty", !.hashtags = "empty"])

\* notifications.getNotifications, lines 32-40 (type = null):
\* Array.isArray(data?.notifications), Boolean(data?.hasMore)
getNotifications200(body) ==
    Value([EmptyPayload EXCEPT
              !.notifications = Or(body.top.notifications, "empty"),
              !.hasMore = IF body.top.hasMore # "undef" THEN "true" ELSE "false"])

getCommentsDefault ==
    Value([EmptyPayload EXCEPT !.comments = "empty", !.hasMore = "false"])

\* comments.getComments, parseResponse, lines 128-147
parseResponse(body) ==
    LET data == IF body.hasData THEN body.data ELSE body.top IN
    IF data.comments # "undef"
    THEN Value([EmptyPayload EXCEPT !.comments = data.comments,
                                    !.hasMore = Or(data.hasMore, "false")])
    ELSE getCommentsDefault

\* The statuses a method takes for success.
Succeeds(m, status) ==
    IF m = "deleteFile" THEN status \in {200, 204}
    ELSE IF m = "addComment" THEN status \in {200, 201}
    ELSE status = 200

\* What a method returns for an answer it takes for success.
OnSuccess(m, body) ==
    IF m \in {"getMyProfile", "addComment"} THEN ReturnData(body)
    ELSE IF m = "deleteFile" THEN True
    ELSE IF m = "getUserProfile" THEN getUserProfile200(body)
    ELSE IF m = "getFollowers" THEN getFollowers200(body)
    ELSE IF m = "search" THEN search200(body)
    ELSE IF m = "getNotifications" THEN getNotifications200(body)
    ELSE parseResponse(body)

\* What a method returns when the precondition fails.
AuthSentinel(m) == IF m = "deleteFile" THEN False ELSE Null

\* What a method returns for any other answer, and for an exception.
OnFailure(m) ==
    IF m = "deleteFile" THEN False
    ELSE IF m = "getComments" THEN getCommentsDefault
    ELSE Null

RepeatsOnMut_ServerError(m, status) ==
    \/ m = "getComments" /\ status = 422
    \/ status = 500

\* comments.getComments, lines 157-158 and 167-169: on a 422, whether it
\* came as a response or as an exception, GET again with sort = popular
RepeatsOn(m, status) == m = "getComments" /\ status = 422

\* HTTP statuses of an answer to a resource request; 0: no answer
ApiStatuses == {200, 204, 422, 500, 0}

NoCall ==
    [ method |-> "none", pc |-> "none", token |-> NoToken, flag |-> FALSE,
      rejects |-> FALSE, nReq |-> 0, status |-> -1, body |-> NoBody,
      result |-> Pending, threw |-> FALSE ]

\* m(...) is called: the precondition, then the request. rejects: whether
\* the HTTP client throws on a status that is not 2xx.
CallMethod(m, rejects) ==
    LET call == [NoCall EXCEPT !.method = m, !.token = accessToken["A"],
                               !.flag = isAuthenticated["A"]] IN
    /\ rcall.pc \in {"none", "done"}
    /\ rcall' =
          IF ~Precondition(m, "A")
          THEN [call EXCEPT !.pc = "done", !.result = AuthSentinel(m)]
          ELSE IF CallThrows(m)
          THEN [call EXCEPT !.pc = "done", !.threw = TRUE]
          ELSE [call EXCEPT !.pc = "sent", !.nReq = 1, !.rejects = rejects]
    /\ UNCHANGED <<poolVars, sessionVars, wlog, build, stream, voice>>

\* the answer to the request arrives and the method deals with it
MethodResponse(status, body) ==
    LET m == rcall.method IN
    /\ rcall.pc = "sent"
    /\ status = 200 \/ body = NoBody
    /\ rcall' =
          IF Succeeds(m, status)
          THEN [rcall EXCEPT !.pc = "done", !.status = status, !.body = body,
                             !.result = OnSuccess(m, body)]
          ELSE IF RepeatsOn(m, status)
          THEN [rcall EXCEPT !.pc = "fallbackSent", !.status = status,
                             !.nReq = @ + 1]
          ELSE [rcall EXCEPT !.pc = "done", !.status = status,
                             !.result = OnFailure(m)]
    /\ UNCHANGED <<poolVars, sessionVars, wlog, build, stream, voice>>

\* comments.getComments, lines 159-165 and 170-180: the answer to the
\* second GET
FallbackResponse(status, body) ==
    /\ rcall.pc = "fallbackSent"
    /\ status = 200 \/ body = NoBody
    /\ rcall' =
          IF status = 200
          THEN [rcall EXCEPT !.pc = "done", !.body = body,
                             !.result = parseResponse(body)]
          ELSE [rcall EXCEPT !.pc = "done", !.result = getCommentsDefault]
    /\ UNCHANGED <<poolVars, sessionVars, wlog, build, stream, voice>>

\* await client.auth.checkAuth()
CheckAuthCall ==
    /\ rcall.pc \in {"none", "done"}
    /\ rcall' = [NoCall EXCEPT !.method = "checkAuth", !.pc = "done",
                               !.token = accessToken["A"],
                               !.flag = isAuthenticated["A"],
                               !.result = IF CheckAuth("A") THEN True ELSE False]
    /\ UNCHANGED <<poolVars, sessionVars, wlog, build, stream, voice>>

NextApi ==
    \/ \E m \in Methods, rejects \in BOOLEAN : CallMethod(m, rejects)
    \/ \E status \in ApiStatuses, body \in Bodies : MethodResponse(status, body)
    \/ \E status \in ApiStatuses, body \in Bodies : FallbackResponse(status, body)
    \/ CheckAuthCall

(***************************************************************************)
(* comments.addVoiceComment: the upload, then the comment.                 *)
(***************************************************************************)
\* What the upload endpoint answers with on success: the file object
\* { id, url, filename, mimeType, size } (by its id), or an empty body.
FileIds == {"f1", "f2"}
NoId == "undefined"
UploadBodies == FileIds \cup {NoId}

\* HTTP statuses of an answer to the upload and to the comment; 0: no answer
WriteStatuses == {200, 201, 500, 0}

\* replyToCommentId: null or the id of a comment
ReplyTargets == {"null", "c1"}

\* A request as the server sees it.
UploadRequest == [kind |-> "upload", content |-> "", replyTo |-> "null", attachmentIds |-> <<>>]

\* comments.addComment, lines 33-37: the body of the POST
CommentRequest(text, replyToCommentId, attachmentIds) ==
    [ kind |-> "comment", content |-> text, replyTo |-> replyToCommentId,
      attachmentIds |-> attachmentIds ]

NoVoice ==
    [ pc |-> "none", token |-> NoToken, flag |-> FALSE, audio |-> FALSE,
      replyTo |-> "null", requests |-> <<>>, upStatus |-> -1,
      uploaded |-> NoId, result |-> "pending" ]

\* comments.addVoiceComment, lines 66-70, with files.uploadFile, lines
\* 22-40: the preconditions, the file, the upload request. audio: whether
\* there is a file at audioPath.
AddVoiceComment(audio, replyToCommentId) ==
    LET call == [NoVoice EXCEPT !.token = accessToken["A"],
                                !.flag = isAuthenticated["A"],
                                !.audio = audio, !.replyTo = replyToCommentId] IN
    /\ voice.pc \in {"none", "done"}
    /\ voice' =
          IF ~RequireAuth("A") \/ ~CheckAuth("A") \/ ~audio
          THEN [call EXCEPT !.pc = "done", !.result = "null"]
          ELSE [call EXCEPT !.pc = "uploading", !.requests = <<UploadRequest>>]
    /\ UNCHANGED <<poolVars, sessionVars, wlog, build, rcall, stream>>

afterUploadMut_CommentsAnyway(v, status, body) ==
    [v EXCEPT !.pc = "commenting", !.upStatus = status,
              !.uploaded = IF status \in {200, 201} THEN body ELSE NoId,
              !.requests = Append(@, CommentRequest("", v.replyTo,
                                     <<IF status \in {200, 201} THEN body ELSE NoId>>))]

\* files.uploadFile, lines 47-60, then comments.addVoiceComment, lines
\* 71-72, and comments.addComment, lines 27-39: what the upload returned,
\* and the comment request if it returned a file
afterUpload(v, status, body) ==
    IF status \in {200, 201} /\ body # NoId /\ RequireAuth("A")
    THEN [v EXCEPT !.pc = "commenting", !.upStatus = status, !.uploaded = body,
                   !.requests = Append(@, CommentRequest("", v.replyTo, <<body>>))]
    ELSE [v EXCEPT !.pc = "done", !.upStatus = status, !.result = "null",
                   !.uploaded = IF status \in {200, 201} THEN body ELSE NoId]

\* the answer to the upload arrives
UploadResponse(status, body) ==
    /\ voice.pc = "uploading"
    /\ status \in {200, 201} \/ body = NoId
    /\ voice' = afterUpload(voice, status, body)
    /\ UNCHANGED <<poolVars, sessionVars, wlog, build, rcall, stream>>

\* comments.addComment, lines 39-53: the answer to the comment arrives
CommentResponse(status) ==
    /\ voice.pc = "commenting"
    /\ voice' = [voice EXCEPT !.pc = "done",
                              !.result = IF status \in {200, 201} THEN "data" ELSE "null"]
    /\ UNCHANGED <<poolVars, sessionVars, wlog, build, rcall, stream>>

NextVoice ==
    \/ \E audio \in BOOLEAN, replyToCommentId \in ReplyTargets :
          AddVoiceComment(audio, replyToCommentId)
    \/ \E status \in WriteStatuses, body \in UploadBodies : UploadResponse(status, body)
    \/ \E status \in WriteStatuses : CommentResponse(status)

(***************************************************************************)
(* The notification stream: getNotificationStream and its read loop.       *)
(***************************************************************************)
\* Text is the sequence of its characters.
NL == "\n"
DataPrefix == <<"d", "a", "t", "a", ":">>

\* One line "data:<payload>" with its line end.
DataLine(payload) == DataPrefix \o payload \o <<NL>>

\* What the server may send before it ends the stream: one event, two
\* events (the first with a blank before the payload), an event with an
\* empty payload, another field before the event, two data lines in one
\* block, a block that is not terminated, nothing.
StreamTexts ==
    { DataLine(<<"1">>) \o <<NL>>,
      DataLine(<<" ", "x">>) \o <<NL>> \o DataLine(<<"1">>) \o <<NL>>,
      DataLine(<<>>) \o <<NL>>,
      <<"e", NL>> \o DataLine(<<"1">>) \o <<NL>>,
      DataLine(<<"1">>) \o DataLine(<<"x">>) \o <<NL>>,
      DataLine(<<"1">>),
      <<>> }

\* buffer.split('\n'): the pieces between the line ends, one more than
\* there are line ends
RECURSIVE Split(_)
Split(s) ==
    IF \A k \in 1..Len(s) : s[k] # NL THEN <<s>>
    ELSE LET k == CHOOSE j \in 1..Len(s) :
                      s[j] = NL /\ \A i \in 1..(j - 1) : s[i] # NL
         IN <<SubSeq(s, 1, k - 1)>> \o Split(SubSeq(s, k + 1, Len(s)))

\* line.startsWith('data:')
StartsWithData(line) ==
    Len(line) >= Len(DataPrefix) /\ SubSeq(line, 1, Len(DataPrefix)) = DataPrefix

\* String.prototype.trim()
RECURSIVE Trim(_)
Trim(s) ==
    IF s = <<>> THEN s
    ELSE IF Head(s) = " " THEN Trim(Tail(s))
    ELSE IF s[Len(s)] = " " THEN Trim(SubSeq(s, 1, Len(s) - 1))
    ELSE s

\* Whether JSON.parse(text) returns: of the texts made of "1", "x" and
\* blanks, the numbers 1, 11, ...
JsonParses(text) == text # <<>> /\ \A k \in 1..Len(text) : text[k] = "1"

\* let currentData = null
NoData == [set |-> FALSE, text |-> <<>>]

\* The argument of onEvent, lines 266-271: null for an empty payload, the
\* decoded value when JSON.parse returns, the string when it throws.
\* closed: whether close() had been called when the callback ran.
Event(currentData, closed) ==
    [ kind |-> IF currentData = <<>> THEN "null"
               ELSE IF JsonParses(currentData) THEN "json" ELSE "raw",
      text |-> currentData, closed |-> closed ]

NoStream ==
    [ pc |-> "none", handle |-> FALSE, text |-> <<>>, pos |-> 0,
      buffer |-> <<>>, lines |-> <<>>, currentData |-> NoData,
      delivered |-> <<>>, errors |-> 0, aborted |-> FALSE, nReads |-> 0 ]

\* getNotificationStream(options), lines 222-247 and 281-289: the
\* precondition, the fetch, the handle. text is what the server will send.
GetNotificationStream(text, outcome) ==
    /\ stream.pc = "none"
    /\ stream' =
          IF ~RequireAuth("A") THEN [stream EXCEPT !.pc = "returned"]
          ELSE IF outcome = "ok"
          THEN [stream EXCEPT !.pc = "awaitRead", !.handle = TRUE, !.text = text]
          ELSE [stream EXCEPT !.pc = "returned", !.errors = @ + 1]
    /\ UNCHANGED <<poolVars, sessionVars, wlog, build, rcall, voice>>

\* Lines 256-261: reader.read() resolves with the next n bytes
ReadChunk(n) ==
    LET value == SubSeq(stream.text, stream.pos + 1, stream.pos + n)
        lines == Split(stream.buffer \o value)
        whole == SubSeq(lines, 1, Len(lines) - 1) IN
    /\ stream.pc = "awaitRead"
    /\ ~stream.aborted
    /\ n \in 1..(Len(stream.text) - stream.pos)
    /\ stream' = [stream EXCEPT !.pos = @ + n, !.nReads = @ + 1,
                                !.buffer = lines[Len(lines)],
                                !.lines = whole,
                                !.currentData = NoData,
                                !.pc = IF whole = <<>> THEN "awaitRead" ELSE "forLoop"]
    /\ UNCHANGED <<poolVars, sessionVars, wlog, build, rcall, voice>>

\* Lines 262-274: one turn of for (const line of lines). closes: whether
\* the onEvent callback calls close() on the handle.
ForLine(closes) ==
    LET line == Head(stream.lines)
        rest == Tail(stream.lines)
        fires == line = <<>> /\ stream.currentData.set
        pc == IF rest = <<>> THEN "awaitRead" ELSE "forLoop" IN
    stream' =
          IF StartsWithData(line)
          THEN [stream EXCEPT !.lines = rest, !.pc = pc,
                   !.currentData = [set |-> TRUE,
                                    text |-> Trim(SubSeq(line, 6, Len(line)))]]
          ELSE IF fires
          THEN [stream EXCEPT !.lines = rest, !.pc = pc,
                   !.delivered = Append(@, Event(stream.currentData.text,
                                                 stream.aborted)),
                   !.currentData = NoData,
                   !.aborted = @ \/ closes]
          ELSE [stream EXCEPT !.lines = rest, !.pc = pc]

ProcessLine(closes) ==
    /\ stream.pc = "forLoop"
    /\ closes => Head(stream.lines) = <<>> /\ stream.currentData.set
    /\ ForLine(closes)
    /\ UNCHANGED <<poolVars, sessionVars, wlog, build, rcall, voice>>

\* Line 257: the server has ended the stream, read() resolves with done
ReadDone ==
    /\ stream.pc = "awaitRead"
    /\ ~stream.aborted
    /\ stream.pos = Len(stream.text)
    /\ stream' = [stream EXCEPT !.pc = "ended"]
    /\ UNCHANGED <<poolVars, sessionVars, wlog, build, rcall, voice>>

\* Lines 276-278: read() rejects, with an AbortError once the controller
\* has aborted and with a network error otherwise
ReadRejects ==
    /\ stream.pc = "awaitRead"
    /\ stream' = [stream EXCEPT !.pc = "stopped",
                                !.errors = IF stream.aborted THEN @ ELSE @ + 1]
    /\ UNCHANGED <<poolVars, sessionVars, wlog, build, rcall, voice>>

\* handle.close(), lines 282-284, called while the loop is not running
Close ==
    /\ stream.handle
    /\ stream.pc \in {"awaitRead", "ended", "stopped"}
    /\ ~stream.aborted
    /\ stream' = [stream EXCEPT !.aborted = TRUE]
    /\ UNCHANGED <<poolVars, sessionVars, wlog, build, rcall, voice>>

\* fetch(url, ...): a response that is ok, one that is not, an exception
FetchOutcomes == {"ok", "notOk", "throws"}

NextStream ==
    \/ \E text \in StreamTexts, outcome \in FetchOutcomes :
          GetNotificationStream(text, outcome)
    \/ \E n \in 1..(Len(stream.text) - stream.pos) : ReadChunk(n)
    \/ \E closes \in BOOLEAN : ProcessLine(closes)
    \/ ReadDone
    \/ ReadRejects
    \/ Close

\* The Sessions after construction, seeded or not as the README shows
\* (client.setAccessToken(token); client.auth.isAuthenticated = true), and
\* the credential files the user did or did not provide.
EnvFiles ==
    { Absent,
      File(<<Line("OTHER", "x"), EmptyLine>>),
      File(<<Line(TokenKey, SeedToken), Line("OTHER", "x"), EmptyLine>>) }

CookieFiles == { Absent, File(<<Cookie("refresh_token", "r0")>>) }

Jars == { <<>>, <<Cookie("refresh_token", "r0")>> }

InitSession ==
    /\ isAuthenticated \in [SessionClients -> BOOLEAN]
    /\ accessToken = [c \in SessionClients |->
                         IF isAuthenticated[c] THEN SeedToken ELSE NoToken]
    /\ cookieJar \in [SessionClients -> Jars]
    /\ \E e \in EnvFiles, k \in CookieFiles :
          files = [f \in Paths |-> IF f = ".env" THEN e ELSE k]
    /\ tasks = [p \in Callers |-> Idle]

\* The pool right after createMirrorPool; its clients' Sessions are not
\* touched by the facade itself.
\* No writer, no createMirrorPool and no resource method called on its own.
InitExt ==
    /\ wlog = <<>>
    /\ build = NoBuild
    /\ rcall = NoCall
    /\ stream = NoStream
    /\ voice = NoVoice

InitPool ==
    /\ index = 0
    /\ log = <<>>
    /\ nDirect = 0
    /\ lastOp = "none"
    /\ InitExt
    /\ isAuthenticated = [c \in SessionClients |-> FALSE]
    /\ accessToken = [c \in SessionClients |-> NoToken]
    /\ cookieJar = [c \in SessionClients |-> <<>>]
    /\ files = [p \in Paths |-> Absent]
    /\ tasks = [p \in Callers |-> Idle]

NextPool ==
    \/ TopCall
    \/ ManagerCall
    \/ GetClient
    \/ PropRead
    \/ MethodRead
    \/ PlainRead
    \/ PinnedCall
    \/ HeldCall

SpecPool == InitPool /\ [][NextPool]_vars

Init ==
    /\ index = 0
    /\ log = <<>>
    /\ nDirect = 0
    /\ lastOp = "none"
    /\ InitSession
    /\ InitExt

\* Callers that call auth.refreshAccessToken() directly.
Next ==
    \/ \E p \in Callers : \E c \in ClientsOf(p) : StartRefresh(p, c)
    \/ \E p \in Callers : RefreshResponse(p)
    \/ \E p \in Callers : RefreshAfterSave(p)
    \/ \E p \in Callers : RefreshAfterGet(p)
    \/ \E p \in Callers : RefreshReturn(p)

Spec == Init /\ [][Next]_vars

\* Callers that make resource requests; the refresh runs on a 401.
NextExec ==
    \/ \E p \in Callers : \E c \in ClientsOf(p) : StartRequest(p, c)
    \/ \E p \in Callers : RequestResponse(p)
    \/ \E p \in Callers : RefreshResponse(p)
    \/ \E p \in Callers : RefreshAfterSave(p)
    \/ \E p \in Callers : RefreshAfterGet(p)
    \/ \E p \in Callers : RefreshReturn(p)
    \/ \E p \in Callers : ExecAfterRefresh(p)
    \/ \E p \in Callers : RetryResponse(p)

\* For the requests: the README's setup (token file with the token, cookie
\* file, refresh cookie in the jar); A's Session seeded or not, B's seeded.
InitExec ==
    /\ Init
    /\ isAuthenticated["B"]
    /\ cookieJar = [c \in SessionClients |-> <<Cookie("refresh_token", "r0")>>]
    /\ HasTokenLine(files[".env"].lines)
    /\ files[".cookies"].exists

SpecExec == InitExec /\ [][NextExec]_vars

\* The writers of token-storage, on the files a user may have provided.
InitStore ==
    /\ index = 0
    /\ log = <<>>
    /\ nDirect = 0
    /\ lastOp = "none"
    /\ isAuthenticated = [c \in SessionClients |-> FALSE]
    /\ accessToken = [c \in SessionClients |-> NoToken]
    /\ cookieJar = [c \in SessionClients |-> <<>>]
    /\ \E e \in StoreEnvFiles, k \in CookieFiles :
          files = [f \in Paths |-> IF f = ".env" THEN e ELSE k]
    /\ tasks = [p \in Callers |-> Idle]
    /\ InitExt

SpecStore == InitStore /\ [][NextStore]_vars

\* createMirrorPool, called once with any argument.
SpecBuild == InitPool /\ [][NextBuild]_vars

\* The Session of client A as a user may have set it up: without a token,
\* with an empty one, with a token; with the flag set or not.
InitApi ==
    /\ index = 0
    /\ log = <<>>
    /\ nDirect = 0
    /\ lastOp = "none"
    /\ \E tok \in {NoToken, EmptyToken, SeedToken} :
          accessToken = [c \in SessionClients |-> IF c = "A" THEN tok ELSE NoToken]
    /\ \E flag \in BOOLEAN :
          isAuthenticated = [c \in SessionClients |-> c = "A" /\ flag]
    /\ cookieJar = [c \in SessionClients |-> <<>>]
    /\ files = [f \in Paths |-> Absent]
    /\ tasks = [p \in Callers |-> Idle]
    /\ InitExt

SpecApi == InitApi /\ [][NextApi]_vars

\* One notification stream on the Session of client A.
SpecStream == InitApi /\ [][NextStream]_vars

\* Voice comments on the Session of client A, one call at a time.
SpecVoice == InitApi /\ [][NextVoice]_vars

(***************************************************************************)
(* One Session with everything that writes its token and flag: the         *)
(* refresh, logout and setAccessToken.                                     *)
(***************************************************************************)
\* response.headers['set-cookie'] of a refresh answer, for the Session of
\* client A: none, entries that do not parse among entries that do, cookies
\* of every kind the filter of lines 63-67 tells apart.
SessionSetCookieHeaders ==
    { NoHeader,
      Header(<<BadCookie>>),
      Header(<<Cookie("refresh_token", "r1"), BadCookie,
               Cookie("sid", "s1"), Cookie("__ddg1_", "d1")>>),
      Header(<<BadCookie, Cookie("is_auth", "1"), Cookie("sid", "s2")>>) }

\* The jar of client A when the calls start: empty, or with the cookies of
\* an earlier sign-in.
SessionJars ==
    { <<>>,
      <<Cookie("sid", "s0")>>,
      <<Cookie("refresh_token", "r0"), Cookie("sid", "s0")>> }

\* the answer of the refresh endpoint arrives
RefreshResponseOfSession(p) ==
    /\ tasks[p].rpc = "awaitPost"
    /\ \/ \E outcome \in FailOutcomes : RefreshFail(p, outcome)
       \/ \E tok \in Tokens, sc \in SessionSetCookieHeaders, fsOk \in BOOLEAN :
              RefreshSuccess(p, tok, sc, fsOk)
    /\ UNCHANGED <<poolVars, extVars>>

\* client.setAccessToken(token), called by the user: a token or null
SetAccessToken(p, token) ==
    /\ Free(p)
    /\ tasks[p].kind # "setAccessToken"
    /\ accessToken' = [accessToken EXCEPT !["A"] = token]
    /\ tasks' = [tasks EXCEPT ![p] =
                    [NewTask("setAccessToken", "A") EXCEPT !.pc = "done",
                                                           !.newToken = token]]
    /\ UNCHANGED <<isAuthenticated, cookieJar, files>>
    /\ UNCHANGED <<poolVars, extVars>>

\* auth.logout(), lines 96-99: POST /api/v1/auth/sign-out
StartLogout(p) ==
    /\ Free(p)
    /\ tasks' = [tasks EXCEPT ![p] = [NewTask("logout", "A") EXCEPT !.pc = "sent"]]
    /\ UNCHANGED <<accessToken, isAuthenticated, cookieJar, files>>
    /\ UNCHANGED <<poolVars, extVars>>

\* HTTP statuses of an answer to the sign-out; 0: no answer
LogoutStatuses == {200, 204, 500, 0}

logoutMut_ClearsWhateverTheAnswer(p, status) ==
    /\ isAuthenticated' = [isAuthenticated EXCEPT ![tasks[p].client] = FALSE]
    /\ accessToken' = [accessToken EXCEPT ![tasks[p].client] = NoToken]
    /\ tasks' = [tasks EXCEPT ![p].pc = "done",
                              ![p].result = IF status = 200 THEN "true" ELSE "false"]

\* auth.logout(), lines 101-113: a 200 clears the flag and the token and
\* returns true; any other status and any exception return false
logout(p, status) ==
    IF status = 200
    THEN /\ isAuthenticated' = [isAuthenticated EXCEPT ![tasks[p].client] = FALSE]
         /\ accessToken' = [accessToken EXCEPT ![tasks[p].client] = NoToken]
         /\ tasks' = [tasks EXCEPT ![p].pc = "done", ![p].result = "true"]
    ELSE /\ tasks' = [tasks EXCEPT ![p].pc = "done", ![p].result = "false"]
         /\ UNCHANGED <<accessToken, isAuthenticated>>

\* the answer to the sign-out arrives
LogoutResponse(p) ==
    /\ tasks[p].kind = "logout"
    /\ tasks[p].pc = "sent"
    /\ \E status \in LogoutStatuses : logout(p, status)
    /\ UNCHANGED <<cookieJar, files>>
    /\ UNCHANGED <<poolVars, extVars>>

NextSession ==
    \/ \E p \in Callers : StartRefresh(p, "A")
    \/ \E p \in Callers : RefreshResponseOfSession(p)
    \/ \E p \in Callers : RefreshAfterSave(p)
    \/ \E p \in Callers : RefreshAfterGet(p)
    \/ \E p \in Callers : RefreshReturn(p)
    \/ \E p \in Callers, token \in {NoToken, SeedToken} : SetAccessToken(p, token)
    \/ \E p \in Callers : StartLogout(p)
    \/ \E p \in Callers : LogoutResponse(p)

\* The Session of client A as the user set it up; the token file is the
\* README's, the cookie file is there or not.
InitSessionA ==
    /\ index = 0
    /\ log = <<>>
    /\ nDirect = 0
    /\ lastOp = "none"
    /\ \E flag \in BOOLEAN :
          /\ isAuthenticated = [c \in SessionClients |-> c = "A" /\ flag]
          /\ accessToken = [c \in SessionClients |->
                               IF c = "A" /\ flag THEN SeedToken ELSE NoToken]
    /\ \E jar \in SessionJars :
          cookieJar = [c \in SessionClients |-> IF c = "A" THEN jar ELSE <<>>]
    /\ \E k \in CookieFiles :
          files = [f \in Paths |->
                      IF f = ".env"
                      THEN File(<<Line(TokenKey, SeedToken), Line("OTHER", "x"), EmptyLine>>)
                      ELSE k]
    /\ tasks = [p \in Callers |-> Idle]
    /\ InitExt

SpecSession == InitSessionA /\ [][NextSession]_vars

(***************************************************************************)
(* The claims.                                                             *)
(***************************************************************************)
InFlight(c) == {p \in Callers : tasks[p].client = c /\ tasks[p].rpc = "awaitPost"}

\* C1: single-flight refresh: while a refresh of a Session is in flight, a
\* further refresh call on the same Session sends no second POST to the
\* refresh endpoint, so at any time at most one refresh round trip of a
\* Session is under way.
C1_SingleFlight == \A c \in SessionClients : Cardinality(InFlight(c)) <= 1

\* C2: a request answered 401 triggers the refresh exactly once and is then
\* sent again exactly once, stamped with the token the refresh returned; a
\* request not answered 401 is sent once and triggers no refresh; whatever
\* the answer to the repeated request, nothing more is sent or refreshed.
C2_RefreshOnceRetryOnce ==
    \A p \in Callers :
        LET t == tasks[p] IN
        t.kind = "request" =>
            /\ t.nRefresh <= 1
            /\ Len(t.sends) <= 2
            /\ t.got401 <=> t.nRefresh = 1
            /\ ~t.got401 => Len(t.sends) <= 1
            /\ t.pc = "retrySent" => Len(t.sends) = 2
            /\ Len(t.sends) = 2 => t.got401 /\ t.rres \in Tokens /\ t.sends[2] = t.rres
            /\ (t.pc = "done" /\ t.got401 /\ t.rres \in Tokens) => Len(t.sends) = 2
            /\ (t.pc = "done" /\ t.got401 /\ t.rres = NoToken) =>
                   Len(t.sends) = 1 /\ t.result = "null"

\* a request answered 401, refreshed, sent again with the new token, and
\* failed again: null, after two requests and one refresh
C2_Witness ==
    \E p \in Callers :
        /\ tasks[p].kind = "request"
        /\ tasks[p].pc = "done"
        /\ tasks[p].got401
        /\ tasks[p].nRefresh = 1
        /\ tasks[p].sends = <<SeedToken, "t1">>
        /\ tasks[p].result = "null"

OnlyCalls == \A k \in 1..Len(log) : log[k].kind = "call"

\* C3: round robin: when the facade of a pool built from [c0..cN-1] is used
\* for calls only, the k-th call (k = 0, 1, ...) runs on c(k mod N); seven
\* calls on [A, B, C] run on A, B, C, A, B, C, A.
C3_RoundRobin ==
    OnlyCalls =>
        /\ \A k \in 1..Len(log) : log[k].client = clients[((k - 1) % Len(clients)) + 1]
        /\ Len(log) = 7 =>
               [k \in 1..7 |-> log[k].client] = <<"A", "B", "C", "A", "B", "C", "A">>

C3_Witness ==
    /\ OnlyCalls
    /\ Len(log) = 7
    /\ log[7].client = "A"
    /\ log[6].client = "C"
    /\ lastOp = "managerCall"

CallOps == {"topCall", "managerCall"}
AdvancingOps == {"topCall", "managerCall", "getClient", "propRead", "methodRead"}

\* C4 as claimed: a step advances the counter, by exactly one, if and only
\* if it is a call through the facade.
C4_OnlyCallsAdvance ==
    [][ IF lastOp' \in CallOps THEN index' = index + 1 ELSE index' = index ]_vars

\* C4, amended: every call pool.m(...) or pool.<manager>.m(...) advances the
\* counter by exactly one; so does every getClient()/nextClient(), every
\* read of a property that is no function, and every read of a manager's
\* method, invoked or not; a call on a pinned client, a repeated call of a
\* function read earlier and a read of pool.<manager>, size or clients
\* leave it as it is.
C4_WhatAdvances ==
    [][ IF lastOp' \in AdvancingOps THEN index' = index + 1 ELSE index' = index ]_vars

C4_Witness ==
    /\ Len(log) = 3
    /\ log[1].kind = "call"
    /\ log[2].kind = "pin"
    /\ log[3].kind = "prop"
    /\ index = 3
    /\ nDirect = 1
    /\ lastOp = "pinnedCall"

\* C5: manual pin isolation: a call made on the client getClient() returned
\* does not advance the pool's counter, so the next client the facade takes
\* is the same after five such calls as after none.
C5_PinIsolation ==
    [][ lastOp' = "pinnedCall" =>
            /\ index' = index
            /\ NextClientOf(index') = NextClientOf(index) ]_vars

\* getClient() gave A, five calls on it, and the facade's next call ran on B
C5_Witness ==
    /\ Len(log) = 2
    /\ log[1] = [kind |-> "pin", client |-> "A"]
    /\ log[2] = [kind |-> "call", client |-> "B"]
    /\ nDirect = 5
    /\ index = 2

Changed(p) == tasks'[p] # tasks[p]

\* C6: Session isolation: a step of a call on one pool entry leaves every
\* other entry's access token, authenticated flag, cookie jar and persisted
\* credential files (its token file and its cookie file) unchanged.
C6_SessionIsolation ==
    [][ \A p \in Callers : Changed(p) =>
            \A d \in SessionClients \ {tasks'[p].client} :
                /\ accessToken'[d] = accessToken[d]
                /\ isAuthenticated'[d] = isAuthenticated[d]
                /\ cookieJar'[d] = cookieJar[d]
                /\ files'[TokenPathOf(d)] = files[TokenPathOf(d)]
                /\ files'[CookiesPathOf(d)] = files[CookiesPathOf(d)] ]_vars

\* C7: a refresh that does not succeed (the answer is not a 200 with an
\* accessToken, or the request fails) resolves to null and changes neither
\* the Session's token, flag and jar nor any file.
C7_FailedRefreshChangesNothing ==
    [][ \A p \in Callers :
            (tasks[p].rpc = "awaitPost" /\ tasks'[p].rpc = "returned") =>
                /\ tasks'[p].rres = NoToken
                /\ accessToken' = accessToken
                /\ isAuthenticated' = isAuthenticated
                /\ cookieJar' = cookieJar
                /\ files' = files ]_vars

\* a failed refresh has returned null on a seeded Session, whose token,
\* flag and token file are as the user set them up
C7_Witness ==
    \E p \in Callers :
        LET c == tasks[p].client IN
        /\ tasks[p].kind = "refresh"
        /\ tasks[p].rpc = "returned"
        /\ tasks[p].rres = NoToken
        /\ accessToken[c] = SeedToken
        /\ isAuthenticated[c]
        /\ files[TokenPathOf(c)] =
               File(<<Line(TokenKey, SeedToken), Line("OTHER", "x"), EmptyLine>>)

ReturnsToken(p) ==
    /\ tasks[p].rpc # "returned"
    /\ tasks'[p].rpc = "returned"
    /\ tasks'[p].rres \in Tokens

\* C8: when a refresh answered 200 with an accessToken returns, it returns
\* that token, and the Session's access token is that token and its
\* authenticated flag is set.
C8_ReturnedTokenIsSessionToken ==
    [][ \A p \in Callers : ReturnsToken(p) =>
            /\ tasks'[p].rres = tasks[p].newToken
            /\ accessToken'[tasks[p].client] = tasks'[p].rres
            /\ isAuthenticated'[tasks[p].client] ]_vars

ContainsToken(file, tok) ==
    /\ file.exists
    /\ \E k \in 1..Len(file.lines) : file.lines[k] = Line(TokenKey, tok)

\* C9 as claimed: whenever refresh returns a token, the token file then
\* contains that token, which is also the Session's access token.
C9_PersistedOnEveryRefresh ==
    [][ \A p \in Callers : ReturnsToken(p) =>
            /\ ContainsToken(files'[TokenPathOf(tasks[p].client)], tasks'[p].rres)
            /\ accessToken'[tasks[p].client] = tasks'[p].rres ]_vars

\* C9, amended: the step that takes a refresh answer with a token sets the
\* Session's access token to it and, when the token file exists and can be
\* read and written, leaves in the token file the line
\* ITD_ACCESS_TOKEN=<that token>; when the file is missing or the file
\* system refuses, no file is changed (and refresh still returns the token).
C9_PersistedWhenFileExists ==
    [][ \A p \in Callers :
            (tasks[p].rpc = "awaitPost" /\ tasks'[p].rpc = "afterSave") =>
                LET c == tasks[p].client
                    tok == tasks'[p].newToken IN
                /\ tok \in Tokens
                /\ accessToken'[c] = tok
                /\ ~files[TokenPathOf(c)].exists => ~tasks'[p].saved
                /\ tasks'[p].saved => ContainsToken(files'[TokenPathOf(c)], tok)
                /\ ~tasks'[p].saved => files' = files ]_vars

\* the token t1 was appended to a token file that had no token line
C9_Witness ==
    \E p \in Callers :
        /\ tasks[p].rpc = "afterSave"
        /\ tasks[p].saved
        /\ tasks[p].newToken = "t1"
        /\ accessToken[tasks[p].client] = "t1"
        /\ files[".env"] =
               File(<<Line("OTHER", "x"), EmptyLine, Line(TokenKey, "t1"), EmptyLine>>)

\* C10: refresh never throws: whatever the HTTP exchange and the
\* persistence steps do, it resolves, to the new token or to null.
C10_RefreshNeverThrows ==
    \A p \in Callers :
        /\ ~tasks[p].threw
        /\ tasks[p].rpc = "returned" => tasks[p].rres \in Tokens \cup {NoToken}

\* a refresh returned the token although there is no token file to save it
\* to, and another returned null
C10_Witness ==
    /\ ~files[".env"].exists
    /\ tasks["p"].rpc = "returned" /\ tasks["p"].rres \in Tokens
    /\ tasks["q"].rpc = "returned" /\ tasks["q"].rres = NoToken

TokenLines(lines) == {k \in 1..Len(lines) : IsTokenLine(lines[k])}

\* C11: token-file writer round trip: for an existing token file (without
\* the key, with the key, with several unrelated keys), writing a token T1
\* and then a token T2 leaves a file with exactly one ITD_ACCESS_TOKEN line,
\* whose value is T2, and with every other line of the original file where
\* and as it was; nothing but the token line (and the line end after an
\* appended one) is added.
C11_TokenWriterRoundTrip ==
    \A i \in 1..(Len(wlog) - 1) :
        LET w1 == wlog[i]
            w2 == wlog[i + 1]
            orig == w1.before.lines
            final == w2.after.lines IN
        (w1.op = "token" /\ w2.op = "token" /\ w1.ok /\ w2.ok) =>
            /\ w2.after.exists
            /\ Cardinality(TokenLines(final)) = 1
            /\ \A k \in TokenLines(final) : final[k] = Line(TokenKey, w2.tok)
            /\ \A k \in 1..Len(orig) : ~IsTokenLine(orig[k]) => final[k] = orig[k]
            /\ Len(final) = IF HasTokenLine(orig) THEN Len(orig) ELSE Len(orig) + 2

\* t1 and then t2 were written to a file of two unrelated keys without the
\* key: both keys are as they were, and the one token line says t2
C11_Witness ==
    /\ Len(wlog) = 2
    /\ wlog[1].op = "token" /\ wlog[1].ok /\ wlog[1].tok = "t1"
    /\ wlog[2].op = "token" /\ wlog[2].ok /\ wlog[2].tok = "t2"
    /\ wlog[1].before = File(<<Line("OTHER", "x"), Line("MORE", "y"), EmptyLine>>)
    /\ files[".env"] =
           File(<<Line("OTHER", "x"), Line("MORE", "y"), EmptyLine,
                  Line(TokenKey, "t2"), EmptyLine>>)

LastWrite == wlog'[Len(wlog')]
Wrote(op) == Len(wlog') = Len(wlog) + 1 /\ LastWrite.op = op

\* C12: when the token file does not exist, the token writer returns false,
\* does not throw and does not create the file: the file system is as it
\* was.
C12_MissingTokenFile ==
    [][ (Wrote("token") /\ ~files[TokenPathOf("A")].exists) =>
            /\ ~LastWrite.ok
            /\ ~LastWrite.threw
            /\ files' = files ]_vars

\* the token writer was called without a token file, while the file system
\* would have let it write: it returned false and there is still no file
C12_Witness ==
    /\ Len(wlog) = 1
    /\ wlog[1].op = "token"
    /\ wlog[1].before = Absent
    /\ ~wlog[1].ok
    /\ ~wlog[1].threw
    /\ ~files[".env"].exists
    /\ files[".cookies"].exists

\* C13: the cookie writer replaces the whole cookie file by the header it
\* is given and creates the file when there is none: after a write that
\* succeeded the file holds exactly the header, whatever it held before,
\* and no other file has changed; writing the same header again leaves the
\* file as it is.
C13_CookieWriterReplaces ==
    [][ (Wrote("cookie") /\ LastWrite.ok) =>
            /\ files'[CookiesPathOf("A")] = File(LastWrite.header)
            /\ files'[TokenPathOf("A")] = files[TokenPathOf("A")]
            /\ \A i \in 1..Len(wlog) :
                   (wlog[i].op = "cookie" /\ wlog[i].ok
                      /\ wlog[i].header = LastWrite.header
                      /\ files[CookiesPathOf("A")] = wlog[i].after)
                   => files' = files ]_vars

\* the cookie file was created by the first write, replaced by a write of
\* another header, and left as it was by a write of that header again
C13_Witness ==
    /\ Len(wlog) = 3
    /\ \A i \in 1..3 : wlog[i].op = "cookie" /\ wlog[i].ok
    /\ wlog[1].before = Absent
    /\ wlog[1].after = File(<<Cookie("refresh_token", "r1")>>)
    /\ wlog[2].header = <<Cookie("refresh_token", "r2"), Cookie("is_auth", "1")>>
    /\ wlog[3].header = wlog[2].header
    /\ wlog[3].after = wlog[2].after
    /\ files[".cookies"] = File(wlog[3].header)

\* The accounts an argument configures.
Accounts(arg) == IF arg.kind = "array" THEN arg.n ELSE Len(arg.file.entries)

\* The arguments the construction must refuse: an empty array, no
\* mirrorsCookiesPath, neither array nor object, a file that is missing, no
\* JSON, no JSON object or an empty one, an entry with an empty cookie value.
Refused(arg) ==
    \/ arg.kind = "other"
    \/ arg.kind = "array" /\ arg.n = 0
    \/ arg.kind = "options" /\ ~arg.hasPath
    \/ /\ arg.kind = "options"
       /\ arg.hasPath
       /\ \/ arg.file.state # "object"
          \/ Len(arg.file.entries) = 0
          \/ \E k \in 1..Len(arg.file.entries) :
                 toCookieString(arg.file.entries[k]) = <<>>

\* C14: the construction of a pool never gives a pool without clients:
\* createMirrorPool throws for every argument it must refuse, and when it
\* returns a pool, the pool's size is at least 1 and is the number of the
\* accounts configured.
C14_NeverEmptyPool ==
    build.made =>
        /\ Refused(build.arg) => build.threw # "none"
        /\ build.threw = "none" =>
               /\ build.size >= 1
               /\ build.size = Accounts(build.arg)

\* a pool of two clients was made from an array of two configs
C14_Witness ==
    /\ build.made
    /\ build.arg.kind = "array"
    /\ build.arg.n = 2
    /\ build.threw = "none"
    /\ build.size = 2

WellFormed(val) == val.type \in {"string", "object"} /\ toCookieString(val) # <<>>

\* C15: the construction from a mirrors file of K >= 1 well-formed entries
\* (cookie strings or records of named cookie values) succeeds and gives K
\* clients in the order of the keys, the client of key k configured with
\* that account's cookie string and with the paths
\* <root>/.cookies.mirrors.<k> and <root>/.env.mirrors.<k>.
C15_PoolFromMirrorsFile ==
    LET arg == build.arg
        entries == arg.file.entries IN
    ( /\ build.made
      /\ arg.kind = "options"
      /\ arg.hasPath
      /\ arg.file.state = "object"
      /\ Len(entries) >= 1
      /\ \A k \in 1..Len(entries) : WellFormed(entries[k]) ) =>
        /\ build.threw = "none"
        /\ build.size = Len(entries)
        /\ \A k \in 1..Len(entries) :
               build.configs[k] =
                   Config(AccountKeys[k], toCookieString(entries[k]),
                          MirrorPath(ProjectRoot, ".cookies", AccountKeys[k]),
                          MirrorPath(ProjectRoot, ".env", AccountKeys[k]))

\* The Session had neither an access token nor the flag when the method
\* was called.
NoCredentials == rcall.token \in {NoToken, EmptyToken} /\ ~rcall.flag

ReturnedAuthRequired ==
    /\ rcall.pc = "done"
    /\ rcall.nReq = 0
    /\ ~rcall.threw
    /\ rcall.result = IF rcall.method = "deleteFile" THEN False ELSE Null

AuthRequiredMethods == {"getMyProfile", "deleteFile", "getNotifications", "addComment"}
PublicMethods ==
    {"getUserProfile", "getFollowers", "search", "getComments",
     "searchUsers", "searchHashtags"}

C17_CheckAuthIsLocal ==
    [][ (rcall'.method = "checkAuth" /\ rcall' # rcall) =>
            /\ rcall'.pc = "done"
            /\ rcall'.result \in {True, False}
            /\ rcall'.result = True <=>
                   (accessToken["A"] \notin {NoToken, EmptyToken} \/ isAuthenticated["A"])
            /\ rcall'.nReq = 0
            /\ ~rcall'.threw
            /\ UNCHANGED <<accessToken, isAuthenticated, cookieJar, files>> ]_vars

\* checkAuth() returned true on a Session whose flag is set and whose token
\* is the empty string
C17_Witness ==
    /\ rcall.method = "checkAuth"
    /\ rcall.pc = "done"
    /\ rcall.token = EmptyToken
    /\ rcall.flag
    /\ rcall.result = True
    /\ accessToken["A"] = EmptyToken
    /\ isAuthenticated["A"]

\* The first answer was a 4xx/5xx that is no authorization failure.
UpstreamRejected == rcall.method \in Methods /\ rcall.status \in {422, 500}

\* C18 as claimed: for a 4xx/5xx answer that is no authorization failure
\* the method surfaces the failure at once: one request for that call, no
\* second one.
C18_NoSecondRequest ==
    UpstreamRejected => rcall.nReq = 1 /\ rcall.pc = "done"

\* C18, amended: for a 4xx/5xx answer that is no authorization failure a
\* resource method surfaces the failure at once, with exactly one request
\* for that call; the one exception is getComments answered 422, which
\* sends its GET once more (with sort = popular), never a third time, and
\* returns what that answer holds or its empty result.
C18_NoSecondRequestButGetComments ==
    /\ rcall.nReq <= 2
    /\ rcall.nReq = 2 => rcall.method = "getComments" /\ rcall.status = 422
    /\ UpstreamRejected =>
           IF rcall.method = "getComments" /\ rcall.status = 422
           THEN /\ rcall.nReq = 2
                /\ rcall.pc \in {"fallbackSent", "done"}
           ELSE /\ rcall.nReq = 1
                /\ rcall.pc = "done"
                /\ rcall.result = IF rcall.method = "deleteFile" THEN False
                                  ELSE IF rcall.method = "getComments"
                                  THEN getCommentsDefault
                                  ELSE Null

\* addComment was answered 500: null after the one POST
C18_Witness ==
    /\ rcall.method = "addComment"
    /\ rcall.status = 500
    /\ rcall.pc = "done"
    /\ rcall.nReq = 1
    /\ rcall.result = Null

\* C19: no resource method throws or rejects to its caller: whatever fails
\* (no credentials, an answer that is a failure, no answer, a collaborator
\* that is missing), the call ends with the method's no-result value.
C19_NoMethodThrows ==
    rcall.method \in Methods =>
        /\ ~rcall.threw
        /\ (rcall.pc = "done" /\ rcall.status # 200 /\ rcall.nReq <= 1) =>
               rcall.result \in {Null, False, True, getCommentsDefault}

ReadMethods ==
    {"getMyProfile", "getUserProfile", "getFollowers", "search",
     "getNotifications", "getComments"}

\* The documented empty result of the reads that have one.
EmptyDefault(m) ==
    IF m = "getFollowers"
    THEN Value([EmptyPayload EXCEPT !.users = "empty", !.pagination = "empty"])
    ELSE IF m = "search"
    THEN Value([EmptyPayload EXCEPT !.users = "empty", !.hashtags = "empty"])
    ELSE IF m = "getNotifications"
    THEN Value([EmptyPayload EXCEPT !.notifications = "empty", !.hasMore = "false"])
    ELSE getCommentsDefault

\* C20: envelope rule: for every read method an answer of 200 with the
\* payload under data decodes to what the answer with the same payload at
\* the top level decodes to, and a body of neither shape gives the method's
\* empty default, not an error.
C20_EnvelopeRule ==
    (rcall.method \in ReadMethods /\ rcall.pc = "done" /\ rcall.status = 200) =>
        /\ ~rcall.threw
        /\ rcall.body.hasData =>
               rcall.result = OnSuccess(rcall.method, FlatBody(rcall.body.data))
        /\ (rcall.body = NoBody
              /\ rcall.method \in {"getFollowers", "search", "getNotifications", "getComments"})
           => rcall.result = EmptyDefault(rcall.method)

\* The event blocks of a text: each line data:<payload> that a blank line
\* terminates, by its payload, in the order of the text.
RECURSIVE Blocks(_, _)
Blocks(lines, cd) ==
    IF lines = <<>> THEN <<>>
    ELSE IF StartsWithData(Head(lines))
    THEN Blocks(Tail(lines),
                [set |-> TRUE, text |-> Trim(SubSeq(Head(lines), 6, Len(Head(lines))))])
    ELSE IF Head(lines) = <<>> /\ cd.set
    THEN <<cd.text>> \o Blocks(Tail(lines), NoData)
    ELSE Blocks(Tail(lines), cd)

EventBlocks(text) ==
    LET lines == Split(text) IN Blocks(SubSeq(lines, 1, Len(lines) - 1), NoData)

\* C21: when the server has ended the stream and nobody has closed it, the
\* payloads handed to onEvent are the event blocks of the text received,
\* each once and in the order of arrival, however the bytes were split
\* across the reads.
C21_StreamDelivery ==
    stream.pc = "ended" /\ ~stream.aborted =>
        [k \in 1..Len(stream.delivered) |-> stream.delivered[k].text]
            = EventBlocks(stream.text)

\* C22: once close() has been called on the handle, no read resolves with
\* bytes any more, onEvent is not called any more and onError is not
\* called for the abort.
C22_CloseStopsDelivery ==
    [][stream.aborted =>
          /\ stream'.nReads = stream.nReads
          /\ stream'.delivered = stream.delivered
          /\ stream'.errors = stream.errors]_vars

\* What a step is, seen from the tasks.
IsSetAccessToken(p) == Changed(p) /\ tasks'[p].kind = "setAccessToken"
TakesToken(p) == tasks[p].rpc = "awaitPost" /\ tasks'[p].rpc = "afterSave"
LogoutAnswered(p) ==
    tasks[p].kind = "logout" /\ tasks[p].pc = "sent" /\ tasks'[p].pc = "done"

WritesSession(c) ==
    accessToken'[c] # accessToken[c] \/ isAuthenticated'[c] # isAuthenticated[c]

\* C23: a step changes a Session's access token or authenticated flag only
\* if it is a setAccessToken, a refresh taking an answer with a token, or a
\* logout answered 200; a logout answered otherwise (or not at all) changes
\* neither and returns false, a logout answered 200 returns true and leaves
\* the token null and the flag unset, so that checkAuth() is false.
C23_SessionWriters ==
    [][ /\ \A c \in SessionClients : WritesSession(c) =>
               \E p \in Callers :
                   /\ tasks'[p].client = c
                   /\ \/ IsSetAccessToken(p)
                      \/ TakesToken(p)
                      \/ LogoutAnswered(p) /\ tasks'[p].result = "true"
        /\ \A p \in Callers : LogoutAnswered(p) =>
               LET c == tasks[p].client IN
               IF tasks'[p].result = "true"
               THEN accessToken'[c] = NoToken /\ ~isAuthenticated'[c] /\ ~CheckAuth(c)'
               ELSE /\ tasks'[p].result = "false"
                    /\ accessToken' = accessToken
                    /\ isAuthenticated' = isAuthenticated ]_vars

\* one caller's logout has returned false, the other's has returned true:
\* the token is null, the flag is unset and checkAuth() is false
C23_Witness ==
    /\ tasks["p"].kind = "logout" /\ tasks["p"].pc = "done"
    /\ tasks["p"].result = "false"
    /\ tasks["q"].kind = "logout" /\ tasks["q"].pc = "done"
    /\ tasks["q"].result = "true"
    /\ accessToken["A"] = NoToken
    /\ ~isAuthenticated["A"]
    /\ ~CheckAuth("A")

\* The jar holds the cookie.
InJar(jar, ck) == \E j \in 1..Len(jar) : jar[j] = ck

\* The entry is the last of the header for its name.
LastOfName(cookies, k) ==
    \A i \in (k + 1)..Len(cookies) : cookies[i].key # cookies[k].key

MergesCookies(p) ==
    tasks[p].rpc = "afterSave" /\ tasks[p].setCookie.present /\ Changed(p)

Returns(p) ==
    /\ tasks[p].rpc \in {"afterSave", "afterGet", "afterCookieSave"}
    /\ tasks'[p].rpc = "returned"

\* C24: the cookies of a refresh answer are merged one by one: after the
\* merge the jar holds every entry of the header that parses (the last one
\* of each name), whatever entries beside it do not parse, and the refresh
\* goes on to return the new token.
C24_MergePerCookie ==
    [][ \A p \in Callers :
          /\ MergesCookies(p) =>
                LET cookies == tasks[p].setCookie.cookies
                    c == tasks[p].client IN
                /\ \A k \in 1..Len(cookies) :
                      (cookies[k] # BadCookie /\ LastOfName(cookies, k)) =>
                          InJar(cookieJar'[c], cookies[k])
                /\ ~tasks'[p].threw
                /\ tasks'[p].rpc \in {"afterGet", "returned"}
                /\ tasks'[p].newToken = tasks[p].newToken
                   \/ tasks'[p].rres = tasks[p].newToken
          /\ Returns(p) =>
                /\ tasks[p].newToken \in Tokens
                /\ tasks'[p].rres = tasks[p].newToken
                /\ ~tasks'[p].threw ]_vars

\* an answer with an entry that does not parse between three that do was
\* merged into an empty jar: the jar holds the three, the refresh has
\* returned the token
C24_Witness ==
    \E p \in Callers :
        /\ tasks[p].kind = "refresh"
        /\ tasks[p].rpc = "returned"
        /\ tasks[p].rres = "t1"
        /\ cookieJar["A"] = <<Cookie("refresh_token", "r1"), Cookie("sid", "s1"),
                              Cookie("__ddg1_", "d1")>>

\* The names the upstream expects to see again.
KeptNames == {"refresh_token", "is_auth"} \cup DdgNames

\* Where the jar holds the cookie.
PlaceIn(jar, ck) == CHOOSE j \in 1..Len(jar) : jar[j] = ck

ReadsJar(p) == MergesCookies(p) /\ tasks'[p].rpc = "afterGet"

FiltersJar(p) == tasks[p].rpc = "afterGet" /\ Changed(p)

\* C25: a refresh that has merged the cookies of its answer reads the jar
\* as it is then, and the only thing it writes to the cookie file is the
\* header made of the cookies of that jar named refresh_token, is_auth or
\* __ddg..., each with its value, in the order of the jar; no cookie of
\* another name is ever in the cookie file, and no other file is written.
C25_CookieFileIsFilteredJar ==
    [][ /\ \A p \in Callers :
              /\ ReadsJar(p) => tasks'[p].allCookies = cookieJar'[tasks[p].client]
              /\ FiltersJar(p) =>
                    LET all == tasks[p].allCookies
                        old == files[CookiesPathOf(tasks[p].client)]
                        new == files'[CookiesPathOf(tasks[p].client)] IN
                    /\ files'[".env"] = files[".env"]
                    /\ new # old =>
                          /\ new.exists
                          /\ Len(new.lines) > 0
                          /\ \A i \in 1..Len(new.lines) :
                                new.lines[i].key \in KeptNames /\ InJar(all, new.lines[i])
                          /\ \A j \in 1..Len(all) :
                                all[j].key \in KeptNames => InJar(new.lines, all[j])
                          /\ \A i1, i2 \in 1..Len(new.lines) :
                                i1 < i2 => PlaceIn(all, new.lines[i1]) < PlaceIn(all, new.lines[i2])
        /\ files'[".cookies"].exists =>
              \A i \in 1..Len(files'[".cookies"].lines) :
                  files'[".cookies"].lines[i].key \in KeptNames ]_vars

\* the jar holds refresh_token, sid and a __ddg cookie after the merge, and
\* the cookie file, which did not exist, holds refresh_token and the __ddg
\* cookie
C25_Witness ==
    \E p \in Callers :
        /\ tasks[p].kind = "refresh"
        /\ tasks[p].rpc = "returned"
        /\ tasks[p].rres \in Tokens
        /\ cookieJar["A"] = <<Cookie("refresh_token", "r1"), Cookie("sid", "s1"),
                              Cookie("__ddg1_", "d1")>>
        /\ files[".cookies"] =
               File(<<Cookie("refresh_token", "r1"), Cookie("__ddg1_", "d1")>>)

\* The k-th client of the ring, counting from 0, and the one after a client.
Ring(k) == clients[(k % Len(clients)) + 1]
PlaceOf(c) == CHOOSE k \in 1..Len(clients) : clients[k] = c
After(c) == Ring(PlaceOf(c))

\* C26: getClient() takes its client through the shared counter: it returns
\* the client a call through the facade would have run on in its place, and
\* the call through the facade that comes next runs on the client after it
\* in the ring.
C26_GetClientAdvances ==
    \A k \in 1..Len(log) :
        log[k].kind = "pin" =>
            /\ log[k].client = Ring(k - 1)
            /\ k > 1 => log[k].client = After(log[k - 1].client)
            /\ (k < Len(log) /\ log[k + 1].kind = "call") =>
                   log[k + 1].client = After(log[k].client)

\* a call ran on A, getClient() gave B, the next call ran on C and a
\* second getClient() gave A
C26_Witness ==
    /\ Len(log) = 4
    /\ log[1] = [kind |-> "call", client |-> "A"]
    /\ log[2] = [kind |-> "pin", client |-> "B"]
    /\ log[3] = [kind |-> "call", client |-> "C"]
    /\ log[4] = [kind |-> "pin", client |-> "A"]
    /\ index = 4

\* How often the client was selected.
TimesSelected(c) == Cardinality({k \in 1..Len(log) : log[k].client = c})

\* C27: balance of the round robin: the k-th selection (from 0) gave
\* clients[k mod N], the counter is the number of selections made, and no
\* client was selected more than once more often than another.
C27_Balance ==
    /\ \A k \in 1..Len(log) : log[k].client = clients[((k - 1) % Len(clients)) + 1]
    /\ index = Len(log)
    /\ \A c, d \in {clients[k] : k \in 1..Len(clients)} :
           TimesSelected(c) - TimesSelected(d) \in {-1, 0, 1}

\* calls and getClient()s mixed, seven selections on three clients: A was
\* taken three times, B and C twice
C27_Witness ==
    /\ Len(log) = 7
    /\ \A k \in 1..7 : log[k].kind \in {"call", "pin"}
    /\ \E k \in 1..7 : log[k].kind = "pin"
    /\ \E k \in 1..7 : log[k].kind = "call"
    /\ TimesSelected("A") = 3
    /\ TimesSelected("B") = 2
    /\ TimesSelected("C") = 2
    /\ index = 7

\* C28: the client of a manager method is taken when the method is read:
\* a read of pool.<manager> leaves the counter, every read of
\* pool.<manager>.<method>, called at once or not, advances it by one and
\* gives a function bound to the client the counter pointed at, and calling
\* a function read earlier runs on its client and leaves the counter.
C28_ChosenAtRead ==
    [][ /\ lastOp' = "plainRead" => index' = index /\ log' = log
        /\ lastOp' \in {"methodRead", "managerCall"} =>
              /\ index' = index + 1
              /\ log' = Append(log, log'[Len(log')])
              /\ log'[Len(log')].client = Ring(index)
        /\ lastOp' = "methodRead" => heldFn' = Ring(index)
        /\ lastOp' = "heldCall" =>
              /\ index' = index
              /\ log' = log
              /\ heldFn # NoClient
              /\ heldFn' = heldFn ]_vars

\* a method was read twice, the second function (bound to B) was called
\* twice: the counter stands at two
C28_Witness ==
    /\ Len(log) = 2
    /\ log[1] = [kind |-> "read", client |-> "A"]
    /\ log[2] = [kind |-> "read", client |-> "B"]
    /\ heldFn = "B"
    /\ nDirect = 2
    /\ index = 2
    /\ lastOp = "heldCall"

\* The caller's refresh has taken its answer, with a token, and has not
\* returned yet.
HoldsToken(q) ==
    /\ tasks[q].kind = "refresh"
    /\ tasks[q].rpc \in {"afterSave", "afterGet", "afterCookieSave"}

\* The values of the token lines of a file.
PersistedTokens(file) ==
    {file.lines[k].val : k \in TokenLines(file.lines)}

\* C29: two refreshes of one Session under way at once, both answered 200
\* with a token, the token file present and written without error: the
\* step that takes the later answer leaves the Session's token and the one
\* token of the token file equal to that answer's token, and no later step
\* of either call changes the Session's token or the token file.
C29_LastAnswerWins ==
    [][ \A p, q \in Callers :
          (p # q /\ tasks[q].kind = "refresh" /\ tasks'[p].kind = "refresh"
               /\ tasks[q].client = tasks'[p].client) =>
              LET c == tasks'[p].client IN
              /\ (TakesToken(p) /\ HoldsToken(q) /\ tasks'[p].saved) =>
                    /\ accessToken'[c] = tasks'[p].newToken
                    /\ PersistedTokens(files'[TokenPathOf(c)]) = {accessToken'[c]}
              /\ (Changed(p) /\ ~TakesToken(p)) =>
                    /\ accessToken'[c] = accessToken[c]
                    /\ files'[TokenPathOf(c)] = files[TokenPathOf(c)] ]_vars

\* two refreshes of A have both returned, t1 to the caller whose answer was
\* taken first and t2 to the other: the Session and the token file say t2
C29_Witness ==
    /\ tasks["p"].kind = "refresh" /\ tasks["q"].kind = "refresh"
    /\ tasks["p"].client = "A" /\ tasks["q"].client = "A"
    /\ tasks["p"].rpc = "returned" /\ tasks["q"].rpc = "returned"
    /\ tasks["p"].rres = "t1" /\ tasks["q"].rres = "t2"
    /\ accessToken["A"] = "t2"
    /\ PersistedTokens(files[".env"]) = {"t2"}

\* The requests of the call, by kind.
IsComment(r) == r.kind = "comment"
CommentRequests == SelectSeq(voice.requests, IsComment)

\* C30: addVoiceComment sends the comment request only after an upload
\* that succeeded, at most once, with the empty text and the id of the
\* uploaded file as its one attachment; called on a Session with neither
\* token nor flag, or after an upload that gave no file, it returns null
\* and sends no comment request.
C30_VoiceComment ==
    /\ Len(CommentRequests) <= 1
    /\ Len(CommentRequests) = 1 =>
          /\ Len(voice.requests) = 2
          /\ voice.requests[1].kind = "upload"
          /\ voice.upStatus \in {200, 201}
          /\ voice.uploaded \in FileIds
          /\ voice.requests[2].content = ""
          /\ voice.requests[2].attachmentIds = <<voice.uploaded>>
          /\ voice.requests[2].replyTo = voice.replyTo
    /\ (voice.pc # "none" /\ voice.token \in {NoToken, EmptyToken} /\ ~voice.flag) =>
          voice.pc = "done" /\ voice.result = "null" /\ voice.requests = <<>>
    /\ (voice.pc = "done" /\ voice.uploaded \notin FileIds) =>
          voice.result = "null" /\ Len(CommentRequests) = 0

\* the file f2 was uploaded and the comment, a reply to c1, was posted
\* with it and accepted
C30_Witness ==
    /\ voice.pc = "done"
    /\ voice.result = "data"
    /\ voice.uploaded = "f2"
    /\ voice.requests =
          <<UploadRequest, CommentRequest("", "c1", <<"f2">>)>>

====
